---- MODULE Spec2Model ----
(***************************************************************************)
(* River storage engine: Engine (memtable, flusher, checkpointer, close),  *)
(* WAL (append, replay), Checkpoint (save, load), LSMTree (write, read,    *)
(* reload) and CompactionManager (schedule, worker, run cycle).            *)
(*                                                                         *)
(* Persistent state (survives Crash): walFiles, ckpt, blockFiles, now.     *)
(* Volatile state (one process): everything else.                          *)
(*                                                                         *)
(* Threads: the opener (NewEngine + recover), the caller goroutines calling *)
(* Put/Get/Delete, the main goroutine calling Close, the background        *)
(* flusher, the background checkpointer and the compaction workers.        *)
(* Engine.mu is held across steps only by Put/Delete (between WAL append   *)
(* and memtable update) and by Close; every other user takes and releases  *)
(* it inside one step, so it is modelled by the holder of its write side.  *)
(* A Get returns memTable[k] on a memtable hit and LsmRead on a miss.       *)
(*                                                                         *)
(* Spec runs one caller on keys "a", "b" with a WAL that does not fail.     *)
(* FaultSpec adds the empty key, failing WAL appends and a damaged          *)
(* checkpoint file; ConcSpec runs every caller; LsmSpec drives the LSM tree *)
(* with its own compaction worker; CkptSpec is the checkpoint round trip.   *)
(* WalSpec drives a WAL through its exported methods with clock readings  *)
(* as inputs; BlockSpec builds two blocks pair by pair; CycleSpec opens the *)
(* engine on a directory that holds blocks and runs compaction cycles;      *)
(* QueueSpec fills the task queue while the workers are busy.               *)
(* SchedSpec calls ScheduleCompaction alone; SaveSpec takes Checkpoint.Save *)
(* one system call at a time with crashes; StopSpec runs Start, Stop and    *)
(* the workers of a CompactionManager as processes (FairStopSpec under the  *)
(* scheduler's fairness); FlushSpec lets the block write of a flush fail;   *)
(* RaceSpec runs the checkpointer while recover is writing.                 *)
(***************************************************************************)
EXTENDS Integers, Sequences, FiniteSets, TLC

\* ------------------------------------------------------------- bounds
NumKeys == 2
NumCallers == 2
MaxVal == 2
MaxRecs == 2
MaxRestarts == 2
MaxBlocks == 2

\* the keys of the workload: one-letter keys "a", "b", ...
Keys == 1..NumKeys
\* the other byte strings a caller can pass as a key: the empty key, the single
\* bytes 0xFE and 0xFF (no valid UTF-8) and the three bytes EF BF BD (U+FFFD)
EmptyKey == 0
KeyFE == NumKeys + 1
KeyFF == NumKeys + 2
KeyFFFD == NumKeys + 3
AllKeys == 0..(NumKeys + 3)
Vals == 1..MaxVal
\* goroutines that call Put, Get, Delete and Close on the engine
Callers == 1..NumCallers
\* the absent value: a key with no entry in a map
NoVal == 0

\* history value of a key whose last call was cut by a crash before it returned
InDoubt == MaxVal + 1

\* the bytes of a key
KeyBytes(k) ==
    IF k = EmptyKey THEN <<>>
    ELSE IF k \in Keys THEN <<96 + k>>
    ELSE IF k = KeyFE THEN <<254>>
    ELSE IF k = KeyFF THEN <<255>>
    ELSE <<239, 191, 189>>

\* bytes.Compare(a, b) < 0
RECURSIVE BytesLess(_, _)
BytesLess(a, b) ==
    IF b = <<>> THEN FALSE
    ELSE IF a = <<>> THEN TRUE
    ELSE IF Head(a) # Head(b) THEN Head(a) < Head(b)
    ELSE BytesLess(Tail(a), Tail(b))

\* key and value lengths in bytes: value v is v bytes
KeyLen(k) == Len(KeyBytes(k))
ValLen(v) == v

\* ------------------------------------------------- program constants
\* sizes are scaled by 16 MiB: 32 MiB -> 2, 64 MiB -> 4
maxMemTableSize == 2
levelBase == 4
numWorkers == 4
taskChanCap == 100
OpTypePut == 1
OpTypeDelete == 2
NumLevels == 7

Levels == 0..(NumLevels - 1)

VARIABLES
    now,          \* last value returned by time.Now().UnixNano()
    walFiles,     \* wal/: sequence of files in ascending name order
    ckpt,         \* checkpoint/checkpoint.json, or NoCkpt
    blockFiles,   \* data/L*/: set of block files
    phase,        \* "down" | "loading" | "replaying" | "open" | "failed"
    memTable,     \* Engine.memTable
    memTableSize, \* Engine.memTableSize
    lastTs,       \* Engine.lastCheckpointedWALTimestamp
    closed,       \* Engine.closed
    mu,           \* holder of the write side of Engine.mu, or "free"
    flushChan,    \* number of signals buffered in Engine.flushChan (cap 1)
    walErr,       \* the WAL's bufio.Writer holds the error of a failed write
    hpc,          \* per caller, the position in its Put, Get, Delete or Close call
    mpc,          \* the main goroutine's position (Close)
    fpc,          \* the flusher's position
    flushing,     \* the memtable the flusher swapped out
    levels,       \* LSMTree.levels
    compacting,   \* LSMTree.compacting
    taskChan,     \* CompactionManager.taskChan
    stats,        \* CompactionManager.stats
    replayTodo,   \* records ReplayFrom still has to hand to the callback
    replayErr,    \* ReplayFrom ends with an error after replayTodo
    replayCount,  \* callback invocations of the recovery in progress
    loaded,       \* what the Checkpoint.Load of the recovery in progress returned
    acked,        \* history: per key, the last acknowledged operation
    appliedTs,    \* history: timestamp of the last WAL record applied to memTable
    ckptLoaded,   \* history: the checkpoint document the recovery in progress loaded
    restarts,     \* history: number of crashes
    flushes,      \* history: number of memtable swaps since the directory was created
    blk,          \* two blocks under construction: pairs added, Data, Header.BlockID
    ckptDir,      \* the checkpoint directory during Checkpoint.Save: the file that
                  \* os.Create made, what is written and what is fsynced of it
    cmCtx,        \* CompactionManager: ctx cancelled, taskChan closed, position of Stop
    wpc,          \* per compaction worker: its position and the task it holds
    cpc           \* the checkpointer inside createCheckpoint: the copy it has made

disk == <<now, walFiles, ckpt, blockFiles>>
engine == <<memTable, memTableSize, lastTs, closed, mu, flushChan, walErr>>
threads == <<hpc, mpc, fpc, flushing>>
lsm == <<levels, compacting>>
cm == <<taskChan, stats>>
rec == <<replayTodo, replayErr, replayCount, loaded>>
hist == <<acked, appliedTs, ckptLoaded, restarts, flushes>>
vars == <<now, walFiles, ckpt, blockFiles, phase, memTable, memTableSize, lastTs,
          closed, mu, flushChan, walErr, hpc, mpc, fpc, flushing, levels, compacting,
          taskChan, stats, replayTodo, replayErr, replayCount, loaded, acked,
          appliedTs, ckptLoaded, restarts, flushes, blk, ckptDir, cmCtx, wpc, cpc>>

\* ------------------------------------------------------------ helpers
EmptyTable == [k \in AllKeys |-> NoVal]
NoCkpt == [exists |-> FALSE, decodable |-> TRUE, memTable |-> EmptyTable,
           memTableSize |-> 0, lastWALTimestamp |-> 0, applied |-> 0]
\* the checkpoint directory with no Save begun: no checkpoint.json.tmp
NoSave == [file |-> "none", doc |-> NoCkpt, written |-> 0, durable |-> 0, old |-> NoCkpt]
\* NewCompactionManager: context not cancelled, queue open, Stop not called
\* (sent is a history field: the number of ScheduleCompaction calls)
NewManager == [started |-> FALSE, cancelled |-> FALSE, chanClosed |-> FALSE,
               stop |-> "none", sent |-> 0, panicked |-> FALSE]
\* the worker goroutines, numbered as Start numbers them
Workers == 1..numWorkers
NoTask == [sourceLevel |-> 0, targetLevel |-> 0, blocks |-> <<>>]
\* a worker goroutine that Start has not yet created
NotStarted == [at |-> "none", task |-> NoTask]
\* the checkpointer outside createCheckpoint (applied is a history field: the
\* timestamp of the last WAL record applied to the table that was copied)
NoCopy == [at |-> "idle", copy |-> EmptyTable, applied |-> 0]
NoLoad == [done |-> FALSE, memTable |-> EmptyTable, memTableSize |-> 0,
           lastWALTimestamp |-> 0]
Idle == [op |-> "idle", key |-> 0, val |-> NoVal, stage |-> "none", res |-> "ok"]
EmptyStats == [CompactionCount |-> 0, BlocksCompacted |-> 0, TasksInQueue |-> 0,
               TasksDropped |-> 0]

\* NewBlock: no pairs, no Data, no BlockID (added is a history field: the pairs
\* in the order of the Add calls)
NewBlock == [pairs |-> <<>>, data |-> <<>>, id |-> <<>>, final |-> FALSE, added |-> <<>>]

\* two blocks, neither with a pair added
NoBlocks == [b \in 1..2 |-> NewBlock]

\* sum of f[x] over a finite set
RECURSIVE SumOver(_, _)
SumOver(S, f) ==
    IF S = {} THEN 0
    ELSE LET x == CHOOSE y \in S : TRUE IN f[x] + SumOver(S \ {x}, f)

\* sum of len(key)+len(value) over the entries of a table
TableBytes(t) ==
    SumOver({k \in AllKeys : t[k] # NoVal}, [k \in AllKeys |-> KeyLen(k) + ValLen(t[k])])

\* number of records in all WAL files
RECURSIVE WalCount(_)
WalCount(files) ==
    IF files = <<>> THEN 0 ELSE Len(Head(files).recs) + WalCount(Tail(files))

\* tail of all WAL records, in replay order
RECURSIVE WalAll(_)
WalAll(files) ==
    IF files = <<>> THEN <<>> ELSE Head(files).recs \o WalAll(Tail(files))

\* the record appended last
LastRec(files) == WalAll(files)[WalCount(files)]

\* its timestamp, 0 for a WAL without records
LastRecTs(files) == IF WalCount(files) = 0 THEN 0 ELSE LastRec(files).ts

\* -------------------------------------------------------------- WAL
\* WAL.openCurrentFile: the file with the largest name timestamp is reopened for
\* append; only an empty directory gets a new file, named by the clock reading t.
WalOpenCurrent(files, t) ==
    IF files = <<>>
    THEN <<[name |-> t, recs |-> <<>>, torn |-> "none", tornAt |-> 0]>>
    ELSE files

\* an append that leaves a frame on disk which is no Put and no Delete record
AppendRec_NotTheRecord(files, r) ==
    LET n == Len(files)
    IN [files EXCEPT ![n].recs = Append(@, [r EXCEPT !.op = 0])]

\* WAL.append: one framed record, written, flushed and fsynced to the current file
AppendRec(files, r) ==
    LET n == Len(files)
    IN [files EXCEPT ![n].recs = Append(@, r)]

\* what a cut or damaged frame looks like to the reader: a short header, a short
\* payload, a checksum that does not match
TornKinds == {"header", "payload", "crc"}

\* the ways WAL.append can end: nil, an error of writer.Flush, an error of
\* file.Sync (an error of writer.Write is the stored error of an earlier Flush)
AppendResults == {"ok", "flush", "sync"}

\* what a failed append can leave at the end of the current file
FrameKinds(res) == IF res = "ok" THEN {"none"} ELSE TornKinds \cup {"none"}

\* the current file with a frame of the given kind at its end; the reader stops
\* at the first such frame of a file
Damage(files, kind) ==
    LET n == Len(files)
    IN IF kind = "none" \/ files[n].torn # "none" THEN files
       ELSE [files EXCEPT ![n].torn = kind, ![n].tornAt = Len(files[n].recs)]

\* the append returns nil on no outcome but "ok"
AppendErr_Nil(res) == FALSE

\* the error WAL.append returns
AppendErr(res) == res # "ok"

\* WAL.append with its outcome. A writer that holds an error refuses the
\* record. A failed Flush leaves nothing or part of the frame in the file and
\* the error in the writer. A failed Sync leaves the frame in the page cache:
\* the file then holds the record (kind "none") or a damaged frame.
WalAppend(files, werr, r, res, kind) ==
    IF werr THEN [files |-> files, werr |-> TRUE, res |-> "write"]
    ELSE IF res = "ok" THEN [files |-> AppendRec(files, r), werr |-> FALSE, res |-> res]
    ELSE IF res = "flush" THEN [files |-> Damage(files, kind), werr |-> TRUE, res |-> res]
    ELSE [files |-> IF kind = "none" THEN AppendRec(files, r) ELSE Damage(files, kind),
          werr |-> FALSE, res |-> res]

\* WAL.replayFileFrom: the records of one file handed to the callback (timestamp
\* above fromTimestamp), and whether the loop ends with an error: a short header,
\* a short payload and a CRC mismatch all return an error. A file torn after
\* tornAt records is read up to there.
ReplayFileFrom(f, fromTimestamp) ==
    LET readable == IF f.torn = "none" THEN f.recs ELSE SubSeq(f.recs, 1, f.tornAt)
    IN [recs |-> SelectSeq(readable, LAMBDA r : r.ts > fromTimestamp),
        err |-> f.torn # "none"]

\* WAL.ReplayFrom: files whose name timestamp is below fromTimestamp are skipped,
\* the others are replayed oldest first; the first error ends the replay.
RECURSIVE ReplayFrom(_, _)
ReplayFrom(files, fromTimestamp) ==
    IF files = <<>> THEN [recs |-> <<>>, err |-> FALSE]
    ELSE IF Head(files).name < fromTimestamp THEN ReplayFrom(Tail(files), fromTimestamp)
    ELSE LET one == ReplayFileFrom(Head(files), fromTimestamp)
         IN IF one.err THEN one
            ELSE LET rest == ReplayFrom(Tail(files), fromTimestamp)
                 IN [recs |-> one.recs \o rest.recs, err |-> rest.err]

\* ------------------------------------------------------- Checkpoint
\* json.Encoder on a map key: a string that is no valid UTF-8 is written with
\* U+FFFD in place of each invalid byte
JsonKey(k) == IF k \in {KeyFE, KeyFF} THEN KeyFFFD ELSE k

\* the "mem_table" object: json.Encoder writes the entries sorted by key and
\* json.Decoder keeps, of entries with the same name, the one written last
JsonMap(mt) ==
    [j \in AllKeys |->
        LET src == {k \in AllKeys : mt[k] # NoVal /\ JsonKey(k) = j}
        IN IF src = {} THEN NoVal
           ELSE mt[CHOOSE k \in src :
                       \A o \in src : ~BytesLess(KeyBytes(k), KeyBytes(o))]]

\* Checkpoint.Save: the document written to checkpoint.json.tmp and renamed over
\* checkpoint.json. applied is a history field: the timestamp of the last WAL
\* record applied to the table that is saved.
CheckpointSave(mt, size, ts, applied) ==
    [exists |-> TRUE, decodable |-> TRUE, memTable |-> JsonMap(mt), memTableSize |-> size,
     lastWALTimestamp |-> ts, applied |-> applied]

\* a Load that returns the fields of a document it could not decode
CheckpointLoad_Trusting(c) ==
    [done |-> TRUE, memTable |-> c.memTable, memTableSize |-> c.memTableSize,
     lastWALTimestamp |-> c.lastWALTimestamp]

\* Checkpoint.Load: empty table, size 0 and timestamp 0 when there is no file
\* and when the file cannot be decoded
CheckpointLoad(c) ==
    IF c.exists /\ c.decodable
    THEN [done |-> TRUE, memTable |-> c.memTable, memTableSize |-> c.memTableSize,
          lastWALTimestamp |-> c.lastWALTimestamp]
    ELSE [done |-> TRUE, memTable |-> EmptyTable, memTableSize |-> 0,
          lastWALTimestamp |-> 0]

\* ------------------------------------------------------------- LSM
\* Byte strings that bound a block's key range, ordered as Go orders strings:
\* the empty string, then block file names (they start with a digit), then keys
\* (letters).
EmptyTok == [kind |-> 0, v |-> 0]
NameTok(n) == [kind |-> 1, v |-> n]
KeyTok(k) == IF k = EmptyKey THEN EmptyTok ELSE [kind |-> 2, v |-> k]
StrLess(a, b) ==
    \/ a.kind < b.kind
    \/ /\ a.kind = b.kind
       /\ IF a.kind = 2 THEN BytesLess(KeyBytes(a.v), KeyBytes(b.v)) ELSE a.v < b.v

\* LSMTree.keyInRange
keyInRange(key, minKey, maxKey) ==
    ~StrLess(KeyTok(key), minKey) /\ ~StrLess(maxKey, KeyTok(key))

\* NewLSMTree: compactionThresholds[level] = levelMaxSizes[level] * 3 / 4
RECURSIVE Pow4(_)
Pow4(i) == IF i = 0 THEN 1 ELSE 4 * Pow4(i - 1)
compactionThreshold(level) == (levelBase * Pow4(level) * 3) \div 4

RECURSIVE SeqSum(_)
SeqSum(s) == IF s = <<>> THEN 0 ELSE Head(s) + SeqSum(Tail(s))

\* LSMTree.shouldCompact
shouldCompact(lv, level) ==
    SeqSum([i \in 1..Len(lv[level]) |-> lv[level][i].size]) >= compactionThreshold(level)

\* Block.Add over the entries of a table: Stats.MinKey, Stats.MaxKey. A bound
\* of length 0 counts as unset, so the empty key never stays a bound once
\* another key is added after it; for a table that holds the empty key MinKey
\* depends on the iteration order of the map, and no specification of this
\* module flushes such a table.
BlockMinKey(t) ==
    LET ks == {k \in AllKeys \ {EmptyKey} : t[k] # NoVal}
    IN IF ks = {} THEN EmptyTok
       ELSE KeyTok(CHOOSE k \in ks : \A j \in ks : ~BytesLess(KeyBytes(j), KeyBytes(k)))
BlockMaxKey(t) ==
    LET ks == {k \in AllKeys \ {EmptyKey} : t[k] # NoVal}
    IN IF ks = {} THEN EmptyTok
       ELSE KeyTok(CHOOSE k \in ks : \A j \in ks : ~BytesLess(KeyBytes(k), KeyBytes(j)))

\* LSMTree.readFromBlock: NoVal when the file cannot be opened or decoded, or the
\* block does not hold the key
readFromBlock(files, path, key) ==
    LET fs == {f \in files : f.level = path.level /\ f.name = path.name}
    IN IF fs = {} THEN NoVal
       ELSE LET f == CHOOSE x \in fs : TRUE
            IN IF f.valid THEN f.pairs[key] ELSE NoVal

\* LSMTree.findBlockIndex: binary search, 0 when no block covers the key
\* (indices are 1-based here)
RECURSIVE findBlockSearch(_, _, _, _)
findBlockSearch(blocks, key, left, right) ==
    IF left > right THEN 0
    ELSE LET mid == (left + right) \div 2
         IN IF StrLess(KeyTok(key), blocks[mid].minKey)
            THEN findBlockSearch(blocks, key, left, mid - 1)
            ELSE IF StrLess(blocks[mid].maxKey, KeyTok(key))
            THEN findBlockSearch(blocks, key, mid + 1, right)
            ELSE mid
findBlockIndex(lv, level, key) == findBlockSearch(lv[level], key, 1, Len(lv[level]))

\* LSMTree.Read, level 0: newest block first, every block whose range holds the key
RECURSIVE ReadLevel0(_, _, _, _)
ReadLevel0(lv, files, key, i) ==
    IF i = 0 THEN NoVal
    ELSE LET b == lv[0][i]
             v == IF keyInRange(key, b.minKey, b.maxKey)
                  THEN readFromBlock(files, b.path, key) ELSE NoVal
         IN IF v # NoVal THEN v ELSE ReadLevel0(lv, files, key, i - 1)

\* LSMTree.Read, levels 1..6
RECURSIVE ReadDeep(_, _, _, _)
ReadDeep(lv, files, key, level) ==
    IF level >= NumLevels THEN NoVal
    ELSE LET idx == findBlockIndex(lv, level, key)
             v == IF idx > 0 THEN readFromBlock(files, lv[level][idx].path, key)
                  ELSE NoVal
         IN IF v # NoVal THEN v ELSE ReadDeep(lv, files, key, level + 1)

\* LSMTree.Read: the value, or NoVal for the "key not found" error
LsmRead(lv, files, key) ==
    LET v == ReadLevel0(lv, files, key, Len(lv[0]))
    IN IF v # NoVal THEN v ELSE ReadDeep(lv, files, key, 1)

\* ascending sequence of a finite set of block files by name
RECURSIVE SortByName(_)
SortByName(S) ==
    IF S = {} THEN <<>>
    ELSE LET m == CHOOSE x \in S : \A y \in S : x.name <= y.name
         IN <<m>> \o SortByName(S \ {m})

\* LSMTree.loadExistingBlocks: every *.blk file of a level directory becomes a
\* blockInfo whose minKey and maxKey are both the file name; the level is then
\* sorted by minKey.
loadExistingBlocks(files) ==
    [l \in Levels |->
        LET fs == SortByName({f \in files : f.level = l})
        IN [i \in 1..Len(fs) |->
               [path |-> [level |-> l, name |-> fs[i].name], size |-> fs[i].size,
                minKey |-> NameTok(fs[i].name), maxKey |-> NameTok(fs[i].name)]]]

\* the block file LSMTree.Write creates in data/L0 for a table, named by the clock
BlockFile(t, name) ==
    [level |-> 0, name |-> name, pairs |-> t, valid |-> TRUE, size |-> TableBytes(t)]

\* LSMTree.Write: levels with the new blockInfo appended to level 0
LsmWrite(lv, t, name) ==
    [lv EXCEPT ![0] = Append(@, [path |-> [level |-> 0, name |-> name],
                                 size |-> TableBytes(t),
                                 minKey |-> BlockMinKey(t), maxKey |-> BlockMaxKey(t)])]

\* e.memTable[string(key)] = value
MemPut(mt, k, v) == [mt EXCEPT ![k] = v]

\* a delete that leaves the entry in the map
MemDelete_KeepsEntry(mt, k) == mt

\* delete(e.memTable, string(key))
MemDelete(mt, k) == [mt EXCEPT ![k] = NoVal]

\* Engine.Get: memtable first, then the LSM tree
EngineGet(key) ==
    IF memTable[key] # NoVal THEN memTable[key]
    ELSE LsmRead(levels, blockFiles, key)

\* the error LSMTree.Read returns with its answer: fmt.Errorf("key not found")
\* when no block of any level gave a value
LsmReadErr(lv, files, key) ==
    IF LsmRead(lv, files, key) = NoVal THEN "key not found" ELSE "nil"

\* the error Engine.Get returns with its answer: the closed error, nil on a
\* memtable hit, else the error of LSMTree.Read as it is
EngineGetErr(key) ==
    IF closed THEN "engine is closed"
    ELSE IF memTable[key] # NoVal THEN "nil"
    ELSE LsmReadErr(levels, blockFiles, key)

\* ------------------------------------------------------------ Init
\* a fresh base directory and no process
Init ==
    /\ now = 0
    /\ walFiles = <<>>
    /\ ckpt = NoCkpt
    /\ blockFiles = {}
    /\ phase = "down"
    /\ memTable = EmptyTable
    /\ memTableSize = 0
    /\ lastTs = 0
    /\ closed = FALSE
    /\ mu = "free"
    /\ flushChan = 0
    /\ walErr = FALSE
    /\ hpc = [c \in Callers |-> Idle]
    /\ mpc = "idle"
    /\ fpc = "idle"
    /\ flushing = EmptyTable
    /\ levels = [l \in Levels |-> <<>>]
    /\ compacting = FALSE
    /\ taskChan = <<>>
    /\ stats = EmptyStats
    /\ replayTodo = <<>>
    /\ replayErr = FALSE
    /\ replayCount = 0
    /\ loaded = NoLoad
    /\ acked = EmptyTable
    /\ appliedTs = 0
    /\ ckptLoaded = NoCkpt
    /\ restarts = 0
    /\ flushes = 0
    /\ blk = NoBlocks
    /\ ckptDir = NoSave
    /\ cmCtx = NewManager
    /\ wpc = [w \in Workers |-> NotStarted]
    /\ cpc = NoCopy

\* ------------------------------------------------- open and recovery
\* NewEngine up to the call of recover: NewLSMTree (loadExistingBlocks), NewWAL
\* (openCurrentFile), NewCheckpoint, NewCompactionManager, the Engine literal,
\* compaction.Start and the two background goroutines.
Open ==
    /\ phase = "down"
    /\ IF walFiles = <<>>
       THEN /\ now' = now + 1
            /\ walFiles' = WalOpenCurrent(walFiles, now + 1)
       ELSE /\ walFiles' = WalOpenCurrent(walFiles, now)
            /\ now' = now
    /\ levels' = loadExistingBlocks(blockFiles)
    /\ phase' = "loading"
    /\ UNCHANGED <<ckpt, blockFiles, engine, threads, compacting, cm, rec, hist, blk, ckptDir, cmCtx, wpc, cpc>>

\* Engine.recover, first half: Checkpoint.Load into the engine's fields, then
\* WAL.ReplayFrom lists and reads the WAL directory under the WAL mutex.
RecoverLoad ==
    /\ phase = "loading"
    /\ LET c == CheckpointLoad(ckpt)
           r == ReplayFrom(walFiles, c.lastWALTimestamp)
       IN /\ memTable' = c.memTable
          /\ memTableSize' = c.memTableSize
          /\ lastTs' = c.lastWALTimestamp
          /\ replayTodo' = r.recs
          /\ replayErr' = r.err
          /\ loaded' = c
    /\ replayCount' = 0
    /\ phase' = "replaying"
    /\ appliedTs' = ckpt.applied
    /\ ckptLoaded' = ckpt
    /\ UNCHANGED <<disk, closed, mu, flushChan, walErr, threads, lsm, cm, acked,
                   restarts, flushes, blk, ckptDir, cmCtx, wpc, cpc>>

\* the callback Engine.recover passes to ReplayFrom, applied to one entry
RecoverApply(mt, e) ==
    IF e.op = OpTypePut THEN MemPut(mt, e.key, e.val)
    ELSE IF e.op = OpTypeDelete THEN MemDelete(mt, e.key)
    ELSE mt

RecoverSize(size, e) ==
    IF e.op = OpTypePut THEN size + KeyLen(e.key) + ValLen(e.val) ELSE size

\* one callback invocation of the replay
ReplayStep ==
    /\ phase = "replaying"
    /\ replayTodo # <<>>
    /\ LET e == Head(replayTodo)
       IN /\ memTable' = RecoverApply(memTable, e)
          /\ memTableSize' = RecoverSize(memTableSize, e)
          /\ lastTs' = e.ts
    /\ replayTodo' = Tail(replayTodo)
    /\ replayCount' = replayCount + 1
    /\ appliedTs' = Head(replayTodo).ts
    /\ UNCHANGED <<disk, phase, closed, mu, flushChan, walErr, threads, lsm, cm,
                   replayErr, loaded, acked, ckptLoaded, restarts, flushes, blk, ckptDir, cmCtx, wpc, cpc>>

\* ReplayFrom returned nil: recover returns and NewEngine returns the engine
RecoverDone ==
    /\ phase = "replaying"
    /\ replayTodo = <<>>
    /\ ~replayErr
    /\ phase' = "open"
    /\ replayCount' = 0
    /\ loaded' = NoLoad
    /\ ckptLoaded' = NoCkpt
    /\ UNCHANGED <<disk, engine, threads, lsm, cm, replayTodo, replayErr, acked,
                   appliedTs, restarts, flushes, blk, ckptDir, cmCtx, wpc, cpc>>

\* ReplayFrom returned an error: NewEngine calls engine.Close(), which takes
\* Engine.mu and sets closed; NewEngine returns its error when Close has returned.
RecoverFail ==
    /\ phase = "replaying"
    /\ replayTodo = <<>>
    /\ replayErr
    /\ mu = "free"
    /\ mu' = "main"
    /\ closed' = TRUE
    /\ mpc' = "close_checkpoint"
    /\ phase' = "failed"
    /\ replayCount' = 0
    /\ loaded' = NoLoad
    /\ ckptLoaded' = NoCkpt
    /\ UNCHANGED <<disk, memTable, memTableSize, lastTs, flushChan, walErr, hpc, fpc, flushing,
                   lsm, cm, replayTodo, replayErr, acked, appliedTs, restarts, flushes, blk, ckptDir, cmCtx, wpc, cpc>>

\* --------------------------------------------------------- Put
\* A call that finds the write side of Engine.mu taken waits at stage "lock";
\* a call that finds it free runs up to the return of the WAL append.
Waiting(op, k, v) == [op |-> op, key |-> k, val |-> v, stage |-> "lock", res |-> "ok"]

\* the holder of the write side of Engine.mu while a Put or Delete that has
\* released it before its memtable update runs
HeldByCaller_Released == "free"

\* the holder of the write side of Engine.mu from the Lock of a Put or Delete
\* to its deferred Unlock
HeldByCaller == "handler"

\* Engine.Put up to the return of wal.AppendPut: Lock, the closed check (a closed
\* engine returns the error), the append (timestamp from the clock, write, flush,
\* fsync) with outcome res
Put(c, k, v, res) ==
    /\ phase = "open"
    /\ hpc[c] \in {Idle, Waiting("put", k, v)}
    /\ WalCount(walFiles) < MaxRecs
    /\ IF mu # "free"
       THEN /\ hpc' = [hpc EXCEPT ![c] = Waiting("put", k, v)]
            /\ UNCHANGED <<now, walFiles, mu, walErr>>
       ELSE IF closed
       THEN /\ hpc' = [hpc EXCEPT ![c] = Idle]
            /\ UNCHANGED <<now, walFiles, mu, walErr>>
       ELSE \E kind \in FrameKinds(res) :
            LET a == WalAppend(walFiles, walErr, [ts |-> now + 1, op |-> OpTypePut,
                                                  key |-> k, val |-> v], res, kind)
            IN /\ now' = IF WalCount(a.files) > WalCount(walFiles) THEN now + 1 ELSE now
               /\ walFiles' = a.files
               /\ walErr' = a.werr
               /\ mu' = HeldByCaller
               /\ hpc' = [hpc EXCEPT ![c] = [op |-> "put", key |-> k, val |-> v,
                                             stage |-> "appended", res |-> a.res]]
    /\ UNCHANGED <<ckpt, blockFiles, phase, memTable, memTableSize, lastTs, closed,
                   flushChan, mpc, fpc, flushing, lsm, cm, rec, hist, blk, ckptDir, cmCtx, wpc, cpc>>

\* memTableSize after Put
PutSize(mt, size, k, v) ==
    size + KeyLen(k) + ValLen(v) - (IF mt[k] # NoVal THEN ValLen(mt[k]) ELSE 0)

\* Engine.Put after the append. An append error is returned (Unlock, nothing
\* else). Else: memtable, size counter, the flush signal (a send that does not
\* block), Unlock, return nil
PutApply(c) ==
    /\ hpc[c].op = "put" /\ hpc[c].stage = "appended"
    /\ IF AppendErr(hpc[c].res)
       THEN UNCHANGED <<memTable, memTableSize, flushChan, acked, appliedTs>>
       ELSE /\ memTable' = MemPut(memTable, hpc[c].key, hpc[c].val)
            /\ memTableSize' = PutSize(memTable, memTableSize, hpc[c].key, hpc[c].val)
            /\ flushChan' = IF memTableSize' >= maxMemTableSize THEN 1 ELSE flushChan
            /\ acked' = [acked EXCEPT ![hpc[c].key] = hpc[c].val]
            /\ appliedTs' = LastRecTs(walFiles)
    /\ mu' = "free"
    /\ hpc' = [hpc EXCEPT ![c] = Idle]
    /\ UNCHANGED <<disk, phase, lastTs, closed, walErr, mpc, fpc, flushing, lsm, cm, rec,
                   ckptLoaded, restarts, flushes, blk, ckptDir, cmCtx, wpc, cpc>>

\* ------------------------------------------------------- Delete
\* Engine.Delete up to the return of wal.AppendDelete
Delete(c, k, res) ==
    /\ phase = "open"
    /\ hpc[c] \in {Idle, Waiting("delete", k, NoVal)}
    /\ WalCount(walFiles) < MaxRecs
    /\ IF mu # "free"
       THEN /\ hpc' = [hpc EXCEPT ![c] = Waiting("delete", k, NoVal)]
            /\ UNCHANGED <<now, walFiles, mu, walErr>>
       ELSE IF closed
       THEN /\ hpc' = [hpc EXCEPT ![c] = Idle]
            /\ UNCHANGED <<now, walFiles, mu, walErr>>
       ELSE \E kind \in FrameKinds(res) :
            LET a == WalAppend(walFiles, walErr, [ts |-> now + 1, op |-> OpTypeDelete,
                                                  key |-> k, val |-> NoVal], res, kind)
            IN /\ now' = IF WalCount(a.files) > WalCount(walFiles) THEN now + 1 ELSE now
               /\ walFiles' = a.files
               /\ walErr' = a.werr
               /\ mu' = HeldByCaller
               /\ hpc' = [hpc EXCEPT ![c] = [op |-> "delete", key |-> k, val |-> NoVal,
                                             stage |-> "appended", res |-> a.res]]
    /\ UNCHANGED <<ckpt, blockFiles, phase, memTable, memTableSize, lastTs, closed,
                   flushChan, mpc, fpc, flushing, lsm, cm, rec, hist, blk, ckptDir, cmCtx, wpc, cpc>>

\* memTableSize after Delete
DeleteSize(mt, size, k) ==
    size - (IF mt[k] # NoVal THEN ValLen(mt[k]) ELSE 0)

\* Engine.Delete after the append. An append error is returned (Unlock, nothing
\* else). Else the entry is removed, Unlock, return nil
DeleteApply(c) ==
    /\ hpc[c].op = "delete" /\ hpc[c].stage = "appended"
    /\ IF AppendErr(hpc[c].res)
       THEN UNCHANGED <<memTable, memTableSize, acked, appliedTs>>
       ELSE /\ memTable' = MemDelete(memTable, hpc[c].key)
            /\ memTableSize' = DeleteSize(memTable, memTableSize, hpc[c].key)
            /\ acked' = [acked EXCEPT ![hpc[c].key] = NoVal]
            /\ appliedTs' = LastRecTs(walFiles)
    /\ mu' = "free"
    /\ hpc' = [hpc EXCEPT ![c] = Idle]
    /\ UNCHANGED <<disk, phase, lastTs, closed, flushChan, walErr, mpc, fpc, flushing, lsm,
                   cm, rec, ckptLoaded, restarts, flushes, blk, ckptDir, cmCtx, wpc, cpc>>

\* ---------------------------------------------------------- Get
\* Engine.Get under the read side of Engine.mu: the closed check and the memtable
\* probe. A hit returns memTable[k] and a closed engine the error; a miss goes on
\* to the LSM tree.
Get(c, k) ==
    /\ phase = "open"
    /\ hpc[c] \in {Idle, Waiting("get", k, NoVal)}
    /\ hpc' = [hpc EXCEPT ![c] =
                  IF mu # "free" THEN Waiting("get", k, NoVal)
                  ELSE IF closed \/ memTable[k] # NoVal THEN Idle
                  ELSE [op |-> "get", key |-> k, val |-> NoVal, stage |-> "lsm",
                        res |-> "ok"]]
    /\ UNCHANGED <<disk, phase, engine, mpc, fpc, flushing, lsm, cm, rec, hist, blk, ckptDir, cmCtx, wpc, cpc>>

\* Engine.Get after RUnlock: the call returns what LSMTree.Read answers
GetLsm(c) ==
    /\ hpc[c].op = "get" /\ hpc[c].stage = "lsm"
    /\ hpc' = [hpc EXCEPT ![c] = Idle]
    /\ UNCHANGED <<disk, phase, engine, mpc, fpc, flushing, lsm, cm, rec, hist, blk, ckptDir, cmCtx, wpc, cpc>>

\* --------------------------------------------------- checkpointer
\* Engine.backgroundCheckpointer, one tick: createCheckpoint unless closed.
\* createCheckpoint copies the memtable under the read side of Engine.mu and
\* calls Checkpoint.Save with the size counter and lastCheckpointedWALTimestamp.
Checkpoint ==
    /\ phase \in {"loading", "replaying", "open"}
    /\ ~closed
    /\ mu = "free"
    /\ ckpt' = CheckpointSave(memTable, memTableSize, lastTs, appliedTs)
    /\ UNCHANGED <<now, walFiles, blockFiles, phase, engine, threads, lsm, cm, rec, hist, blk, ckptDir, cmCtx, wpc, cpc>>

\* ---------------------------------------------------------- Close
\* Engine.Close. It takes the write side of Engine.mu and keeps it until it
\* returns (deferred Unlock). With the closed flag set it calls createCheckpoint,
\* which asks for the read side of Engine.mu, then flush, which asks for the write
\* side; both are granted only while no goroutine holds the write side. Then the
\* channels, the workers, the WAL and the LSM tree are closed.
Close ==
    /\ phase \in {"open", "failed"}
    /\ IF mpc = "idle"
       THEN /\ phase = "open"
            /\ mu = "free"
            /\ closed' = TRUE
            /\ mu' = IF closed THEN "free" ELSE "main"
            /\ mpc' = IF closed THEN "closed" ELSE "close_checkpoint"
            /\ UNCHANGED <<now, ckpt, blockFiles, memTable, memTableSize, fpc, levels,
                           compacting, taskChan, flushes>>
       ELSE IF mpc = "close_checkpoint"
       THEN /\ mu = "free"
            /\ ckpt' = CheckpointSave(memTable, memTableSize, lastTs, appliedTs)
            /\ mpc' = "close_flush"
            /\ UNCHANGED <<now, blockFiles, memTable, memTableSize, closed, mu, fpc,
                           levels, compacting, taskChan, flushes>>
       ELSE /\ mpc = "close_flush"
            /\ mu = "free"
            /\ now' = now + 1
            /\ blockFiles' = blockFiles \cup {BlockFile(memTable, now + 1)}
            /\ levels' = LsmWrite(levels, memTable, now + 1)
            /\ compacting' = (compacting \/ shouldCompact(levels', 0))
            /\ memTable' = EmptyTable
            /\ memTableSize' = 0
            /\ flushes' = flushes + 1
            /\ fpc' = "exited"
            /\ taskChan' = <<>>
            /\ mpc' = "closed"
            /\ UNCHANGED <<ckpt, closed, mu>>
    /\ UNCHANGED <<walFiles, phase, lastTs, flushChan, walErr, hpc, flushing, stats, rec,
                   acked, appliedTs, ckptLoaded, restarts, blk, ckptDir, cmCtx, wpc, cpc>>

\* A further Engine.Close call, made by a caller goroutine once a first call
\* has set the closed flag: Lock, then the closed check returns nil.
CloseAgain(c) ==
    /\ phase = "open"
    /\ closed
    /\ hpc[c] \in {Idle, Waiting("close", 0, NoVal)}
    /\ hpc' = [hpc EXCEPT ![c] = IF mu # "free" THEN Waiting("close", 0, NoVal) ELSE Idle]
    /\ UNCHANGED <<disk, phase, engine, mpc, fpc, flushing, lsm, cm, rec, hist, blk, ckptDir, cmCtx, wpc, cpc>>

\* -------------------------------------------------------- flusher
\* Engine.flush, under Engine.mu: the memtable is taken and replaced by an empty one
FlushSwap ==
    /\ fpc = "lock"
    /\ mu = "free"
    /\ flushing' = memTable
    /\ memTable' = EmptyTable
    /\ memTableSize' = 0
    /\ fpc' = "write"
    /\ flushes' = flushes + 1
    /\ UNCHANGED <<disk, phase, lastTs, closed, mu, flushChan, walErr, hpc, mpc, lsm, cm,
                   rec, acked, appliedTs, ckptLoaded, restarts, blk, ckptDir, cmCtx, wpc, cpc>>

\* Engine.backgroundFlusher: one signal received from flushChan; the goroutine
\* returns when it reads closed, else it calls flush, which waits at "lock" when
\* the write side of Engine.mu is taken. closed is read without Engine.mu: while
\* Close is setting it the read may see either value.
FlusherRecv ==
    /\ fpc = "idle"
    /\ flushChan = 1
    /\ flushes < MaxBlocks
    /\ flushChan' = 0
    /\ \E seen \in {closed, FALSE} :
       IF seen
       THEN /\ fpc' = "exited"
            /\ UNCHANGED <<memTable, memTableSize, flushing, flushes>>
       ELSE IF mu # "free"
       THEN /\ fpc' = "lock"
            /\ UNCHANGED <<memTable, memTableSize, flushing, flushes>>
       ELSE /\ flushing' = memTable
            /\ memTable' = EmptyTable
            /\ memTableSize' = 0
            /\ fpc' = "write"
            /\ flushes' = flushes + 1
    /\ UNCHANGED <<disk, phase, lastTs, closed, mu, walErr, hpc, mpc, lsm, cm, rec,
                   acked, appliedTs, ckptLoaded, restarts, blk, ckptDir, cmCtx, wpc, cpc>>

\* Engine.flush after Unlock: the block is built from the swapped-out table and
\* written by LSMTree.Write, which calls triggerCompaction when level 0 is over
\* its threshold
FlushWrite ==
    /\ fpc = "write"
    /\ now' = now + 1
    /\ blockFiles' = blockFiles \cup {BlockFile(flushing, now + 1)}
    /\ levels' = LsmWrite(levels, flushing, now + 1)
    /\ compacting' = (compacting \/ shouldCompact(levels', 0))
    /\ flushing' = EmptyTable
    /\ fpc' = "idle"
    /\ UNCHANGED <<walFiles, ckpt, phase, engine, hpc, mpc, cm, rec, hist, blk, ckptDir, cmCtx, wpc, cpc>>

\* ----------------------------------------------------- compaction
\* a ScheduleCompaction that drops a task while one slot of the queue is free
ScheduleCompaction_DropsEarly(cs, sourceLevel, targetLevel, blocks) ==
    IF Len(blocks) = 0 THEN cs
    ELSE IF Len(cs.q) + 1 < taskChanCap
    THEN [cs EXCEPT !.q = Append(@, [sourceLevel |-> sourceLevel,
                                     targetLevel |-> targetLevel, blocks |-> blocks])]
    ELSE [cs EXCEPT !.st.TasksDropped = @ + 1]

\* CompactionManager.ScheduleCompaction: the queue and the statistics after the
\* call; a task that cannot be enqueued before the deadline is dropped
ScheduleCompaction(cs, sourceLevel, targetLevel, blocks) ==
    IF Len(blocks) = 0 THEN cs
    ELSE IF Len(cs.q) < taskChanCap
    THEN [cs EXCEPT !.q = Append(@, [sourceLevel |-> sourceLevel,
                                     targetLevel |-> targetLevel, blocks |-> blocks])]
    ELSE [cs EXCEPT !.st.TasksDropped = @ + 1]

\* levels RunCompaction would schedule: 0..5, over threshold, not empty
CompactCandidates(lv) ==
    {l \in 0..5 : shouldCompact(lv, l) /\ Len(lv[l]) # 0}

\* a cycle that schedules the highest candidate level, as one task
RunCompactionCycle_Highest(cs, lv) ==
    IF CompactCandidates(lv) = {} THEN [cs |-> cs, lv |-> lv]
    ELSE LET level == CHOOSE l \in CompactCandidates(lv) :
                          \A m \in CompactCandidates(lv) : l >= m
         IN [cs |-> ScheduleCompaction(cs, level, level + 1, lv[level]),
             lv |-> [lv EXCEPT ![level] = <<>>]]

\* CompactionManager.RunCompaction, after the queue-length check: the first
\* candidate level is scheduled (level 0 with more than 4 blocks as two halves)
\* and its block vector is cleared
RunCompactionCycle(cs, lv) ==
    IF CompactCandidates(lv) = {} THEN [cs |-> cs, lv |-> lv]
    ELSE LET level == CHOOSE l \in CompactCandidates(lv) :
                          \A m \in CompactCandidates(lv) : l <= m
             blocks == lv[level]
             batchSize == (Len(blocks) + 1) \div 2
         IN IF level = 0 /\ Len(blocks) > 4
            THEN [cs |-> ScheduleCompaction(
                             ScheduleCompaction(cs, level, level + 1,
                                                SubSeq(blocks, 1, batchSize)),
                             level, level + 1,
                             SubSeq(blocks, batchSize + 1, Len(blocks))),
                  lv |-> [lv EXCEPT ![level] = <<>>]]
            ELSE [cs |-> ScheduleCompaction(cs, level, level + 1, blocks),
                  lv |-> [lv EXCEPT ![level] = <<>>]]

\* Engine.RunCompaction -> CompactionManager.RunCompaction, under the LSM lock
RunCompaction ==
    /\ phase = "open"
    /\ LET r == IF stats.TasksInQueue > numWorkers * 2
                THEN [cs |-> [q |-> taskChan, st |-> stats], lv |-> levels]
                ELSE RunCompactionCycle([q |-> taskChan, st |-> stats], levels)
       IN /\ taskChan' = r.cs.q
          /\ stats' = r.cs.st
          /\ levels' = r.lv
    /\ UNCHANGED <<disk, phase, engine, threads, compacting, rec, hist, blk, ckptDir, cmCtx, wpc, cpc>>

\* CompactionManager.compact: the files of the data directory afterwards. The
\* target file is created and nothing is written to it; the source block files
\* are removed.
compact(files, task, name) ==
    LET src == {[level |-> task.blocks[i].path.level, name |-> task.blocks[i].path.name] :
                    i \in 1..Len(task.blocks)}
    IN {f \in files : [level |-> f.level, name |-> f.name] \notin src}
       \cup {[level |-> task.targetLevel, name |-> name, pairs |-> EmptyTable,
              valid |-> FALSE, size |-> 0]}

\* CompactionManager.worker: one task received and compacted, statistics updated
WorkerCompact ==
    /\ phase \in {"loading", "replaying", "open", "failed"}
    /\ taskChan # <<>>
    /\ LET task == Head(taskChan)
       IN /\ blockFiles' = compact(blockFiles, task, now + 1)
          /\ stats' = [stats EXCEPT !.CompactionCount = @ + 1,
                                    !.BlocksCompacted = @ + Len(task.blocks),
                                    !.TasksInQueue = Len(taskChan) - 1]
    /\ now' = now + 1
    /\ taskChan' = Tail(taskChan)
    /\ UNCHANGED <<walFiles, ckpt, phase, engine, threads, lsm, rec, hist, blk, ckptDir, cmCtx, wpc, cpc>>

\* ---------------------------------------------------------- crash
\* the process ends without Close: the files stay, the memory is gone
ProcessGone ==
    /\ phase' = "down"
    /\ memTable' = EmptyTable
    /\ memTableSize' = 0
    /\ lastTs' = 0
    /\ closed' = FALSE
    /\ mu' = "free"
    /\ flushChan' = 0
    /\ walErr' = FALSE
    /\ hpc' = [c \in Callers |-> Idle]
    /\ mpc' = "idle"
    /\ fpc' = "idle"
    /\ flushing' = EmptyTable
    /\ levels' = [l \in Levels |-> <<>>]
    /\ compacting' = FALSE
    /\ taskChan' = <<>>
    /\ stats' = EmptyStats
    /\ replayTodo' = <<>>
    /\ replayErr' = FALSE
    /\ replayCount' = 0
    /\ loaded' = NoLoad
    /\ appliedTs' = 0
    /\ ckptLoaded' = NoCkpt
    /\ restarts' = restarts + 1
    /\ blk' = NoBlocks
    /\ cpc' = NoCopy

\* A crash between two WAL appends. A Put or Delete whose record is already
\* fsynced but which has not returned leaves the answer for its key open.
Crash ==
    /\ phase # "down"
    /\ restarts < MaxRestarts
    /\ ProcessGone
    /\ acked' = [k \in AllKeys |->
                     IF \E c \in Callers : hpc[c].stage = "appended" /\ hpc[c].key = k
                     THEN InDoubt ELSE acked[k]]
    /\ UNCHANGED <<disk, flushes, ckptDir, cmCtx, wpc>>

\* A crash inside the WAL.append of a Put or Delete: the tail of the current file
\* holds part of a record
CrashTorn(kind) ==
    /\ phase = "open"
    /\ \A c \in Callers : hpc[c] = Idle
    /\ mu = "free"
    /\ ~closed
    /\ restarts < MaxRestarts
    /\ walFiles[Len(walFiles)].torn = "none"
    /\ walFiles' = [walFiles EXCEPT ![Len(walFiles)].torn = kind,
                                    ![Len(walFiles)].tornAt = Len(walFiles[Len(walFiles)].recs)]
    /\ ProcessGone
    /\ UNCHANGED <<now, ckpt, blockFiles, acked, flushes, ckptDir, cmCtx, wpc>>

\* ----------------------------------------------------------- Next
\* the steps of the process
Step ==
    \/ Open
    \/ RecoverLoad
    \/ ReplayStep
    \/ RecoverDone
    \/ RecoverFail
    \/ \E k \in Keys, v \in Vals : Put(1, k, v, "ok")
    \/ PutApply(1)
    \/ \E k \in Keys : Delete(1, k, "ok")
    \/ DeleteApply(1)
    \/ \E k \in Keys : Get(1, k)
    \/ GetLsm(1)
    \/ Checkpoint
    \/ Close
    \/ CloseAgain(1)
    \/ FlusherRecv
    \/ FlushSwap
    \/ FlushWrite
    \/ RunCompaction
    \/ WorkerCompact

Next ==
    \/ Step
    \/ Crash
    \/ \E kind \in TornKinds : CrashTorn(kind)

Spec == Init /\ [][Next]_vars

\* every goroutine that can take a step is scheduled: the process does not stop
\* while one of its steps is possible. A crash is never forced.
FairSpec == Spec /\ WF_vars(Step)

\* the steps of the flusher goroutine
Flusher ==
    \/ FlusherRecv
    \/ FlushSwap
    \/ FlushWrite

\* as FairSpec, and the flusher goroutine is not starved by the others
FairFlusherSpec == Spec /\ WF_vars(Step) /\ WF_vars(Flusher)

\* ------------------------------------------------- faulty environment
\* The engine with callers of the package API that may pass the empty key, a
\* WAL file whose writes and syncs may fail, and a checkpoint file whose
\* content may be damaged between two processes. Memtables stay below the
\* flush threshold or are left unflushed: the flusher and the compaction
\* workers take no step.
DamageCheckpoint ==
    /\ phase = "down"
    /\ ckpt.exists
    /\ ckpt.decodable
    /\ ckpt' = [ckpt EXCEPT !.decodable = FALSE]
    /\ UNCHANGED <<now, walFiles, blockFiles, phase, engine, threads, lsm, cm, rec, hist, blk, ckptDir, cmCtx, wpc, cpc>>

CallKeys == Keys \cup {EmptyKey}

FaultStep ==
    \/ Open
    \/ RecoverLoad
    \/ ReplayStep
    \/ RecoverDone
    \/ RecoverFail
    \/ \E k \in CallKeys, v \in Vals, res \in AppendResults : Put(1, k, v, res)
    \/ PutApply(1)
    \/ \E k \in CallKeys, res \in AppendResults : Delete(1, k, res)
    \/ DeleteApply(1)
    \/ Checkpoint
    \/ Close

FaultNext ==
    \/ FaultStep
    \/ Crash
    \/ DamageCheckpoint

\* the process does not stop while one of its steps is possible; crashes and
\* damage are never forced
FaultSpec == Init /\ [][FaultNext]_vars /\ WF_vars(FaultStep)

\* -------------------------------------------------- concurrent callers
\* One process on a fresh directory with every caller goroutine issuing Put and
\* Delete, and the flusher.
ConcNext ==
    \/ Open
    \/ RecoverLoad
    \/ RecoverDone
    \/ \E c \in Callers, k \in Keys, v \in Vals : Put(c, k, v, "ok")
    \/ \E c \in Callers : PutApply(c)
    \/ \E c \in Callers, k \in Keys : Delete(c, k, "ok")
    \/ \E c \in Callers : DeleteApply(c)
    \/ FlusherRecv
    \/ FlushSwap
    \/ FlushWrite

ConcSpec == Init /\ [][ConcNext]_vars

\* ------------------------------------------- LSM tree with its worker
\* LSMTree used with its own compaction worker (StartCompactionWorker), which
\* the engine never starts: blocks are written to it directly.

\* LSMTree.compactLevel: every block of the level whose file can be renamed is
\* appended to the next level and the level is cleared; the next level is
\* compacted in turn when it is over its threshold. (Level 6 over its threshold
\* would index level 7; no state within the bounds gets there.)
RECURSIVE compactLevel(_, _, _)
compactLevel(lv, files, level) ==
    LET next == level + 1
        present(b) == \E f \in files : f.level = level /\ f.name = b.path.name
        kept == SelectSeq(lv[level], present)
        moved == [i \in 1..Len(kept) |-> [kept[i] EXCEPT !.path.level = next]]
        names == {kept[i].path.name : i \in 1..Len(kept)}
        lv2 == [lv EXCEPT ![next] = @ \o moved, ![level] = <<>>]
        files2 == {IF f.level = level /\ f.name \in names
                   THEN [f EXCEPT !.level = next] ELSE f : f \in files}
    IN IF next < NumLevels - 1 /\ shouldCompact(lv2, next)
       THEN compactLevel(lv2, files2, next)
       ELSE [lv |-> lv2, files |-> files2]

\* LSMTree.runCompaction: levels 0..5 in turn, each compacted when over its
\* threshold
RECURSIVE runCompactionFrom(_, _, _)
runCompactionFrom(lv, files, level) ==
    IF level >= NumLevels - 1 THEN [lv |-> lv, files |-> files]
    ELSE IF ~shouldCompact(lv, level) THEN runCompactionFrom(lv, files, level + 1)
    ELSE LET r == compactLevel(lv, files, level)
         IN runCompactionFrom(r.lv, r.files, level + 1)
runCompaction(lv, files) == runCompactionFrom(lv, files, 0)

\* the blocks a caller can write: tables with at least one entry over Keys
WritableTables ==
    {t \in [AllKeys -> {NoVal} \cup Vals] :
        t # EmptyTable /\ \A k \in AllKeys \ Keys : t[k] = NoVal}

\* LSMTree.Write of a block built from table t, with triggerCompaction
Write(t) ==
    /\ Cardinality(blockFiles) < MaxBlocks
    /\ now' = now + 1
    /\ blockFiles' = blockFiles \cup {BlockFile(t, now + 1)}
    /\ levels' = LsmWrite(levels, t, now + 1)
    /\ compacting' = (compacting \/ shouldCompact(levels', 0))
    /\ UNCHANGED <<walFiles, ckpt, phase, engine, threads, cm, rec, hist, blk, ckptDir, cmCtx, wpc, cpc>>

\* the goroutine of StartCompactionWorker: one signal received, runCompaction,
\* compacting reset
CompactionWorker ==
    /\ compacting
    /\ LET r == runCompaction(levels, blockFiles)
       IN /\ levels' = r.lv
          /\ blockFiles' = r.files
    /\ compacting' = FALSE
    /\ UNCHANGED <<now, walFiles, ckpt, phase, engine, threads, cm, rec, hist, blk, ckptDir, cmCtx, wpc, cpc>>

\* LSMTree.Close, then NewLSMTree on the same directory: loadExistingBlocks
Reload ==
    /\ levels' = loadExistingBlocks(blockFiles)
    /\ compacting' = FALSE
    /\ UNCHANGED <<disk, phase, engine, threads, cm, rec, hist, blk, ckptDir, cmCtx, wpc, cpc>>

LsmNext ==
    \/ \E t \in WritableTables : Write(t)
    \/ CompactionWorker
    \/ Reload

LsmSpec == Init /\ [][LsmNext]_vars

\* ------------------------------------------------ checkpoint round trip
\* TestCheckpoint_SaveAndLoad for every table over the key strings, every size
\* and every timestamp in the bounds: memTable, memTableSize and lastTs hold
\* what is handed to Save; no engine runs.
CkptInit ==
    /\ memTable \in [AllKeys -> {NoVal} \cup Vals]
    /\ memTableSize \in 0..MaxVal
    /\ lastTs \in 0..MaxRecs
    /\ now = 0
    /\ walFiles = <<>>
    /\ ckpt = NoCkpt
    /\ blockFiles = {}
    /\ phase = "down"
    /\ closed = FALSE
    /\ mu = "free"
    /\ flushChan = 0
    /\ walErr = FALSE
    /\ hpc = [c \in Callers |-> Idle]
    /\ mpc = "idle"
    /\ fpc = "idle"
    /\ flushing = EmptyTable
    /\ levels = [l \in Levels |-> <<>>]
    /\ compacting = FALSE
    /\ taskChan = <<>>
    /\ stats = EmptyStats
    /\ replayTodo = <<>>
    /\ replayErr = FALSE
    /\ replayCount = 0
    /\ loaded = NoLoad
    /\ acked = EmptyTable
    /\ appliedTs = 0
    /\ ckptLoaded = NoCkpt
    /\ restarts = 0
    /\ flushes = 0
    /\ blk = NoBlocks
    /\ ckptDir = NoSave
    /\ cmCtx = NewManager
    /\ wpc = [w \in Workers |-> NotStarted]
    /\ cpc = NoCopy

\* checkpoint.Save(memTable, memTableSize, timestamp)
SaveCall ==
    /\ ckpt' = CheckpointSave(memTable, memTableSize, lastTs, 0)
    /\ UNCHANGED <<now, walFiles, blockFiles, phase, engine, threads, lsm, cm, rec, hist, blk, ckptDir, cmCtx, wpc, cpc>>

\* NewCheckpoint on the same directory, then Load
LoadCall ==
    /\ loaded' = CheckpointLoad(ckpt)
    /\ UNCHANGED <<disk, phase, engine, threads, lsm, cm, replayTodo, replayErr,
                   replayCount, hist, blk, ckptDir, cmCtx, wpc, cpc>>

CkptNext ==
    \/ SaveCall
    \/ LoadCall

CkptSpec == CkptInit /\ [][CkptNext]_vars

\* --------------------------------------------------- the WAL on its own
\* A WAL used through its exported methods on one directory: NewWAL, AppendPut,
\* AppendDelete, ReplayFrom, Close. phase is "open" while a *WAL exists.
\* time.Now().UnixNano() is the wall clock with the monotonic reading dropped:
\* each reading is an input, and the system clock may have been set back since
\* the reading before it.
MaxClock == 4
MaxWalRecs == 3

ClockReadings == 1..MaxClock

\* WAL.maxSize, 64 MiB
walMaxSize == 4

\* the n that writer.Write returns for a record, in the unit of the sizes of
\* this module (the 25 bytes of framing are below it)
frameLen(r) == KeyLen(r.key) + (IF r.op = OpTypePut THEN ValLen(r.val) ELSE 0)

\* WAL.size: info.Size() at open plus the n of every Write since
walSize(files) ==
    LET f == files[Len(files)]
    IN SeqSum([i \in 1..Len(f.recs) |-> frameLen(f.recs[i])])

\* WAL.rotate: Flush, Close of the file, openCurrentFile
rotate(files, t) == WalOpenCurrent(files, t)

\* NewWAL: MkdirAll, openCurrentFile
NewWALCall(t) ==
    /\ phase = "down"
    /\ walFiles' = WalOpenCurrent(walFiles, t)
    /\ now' = IF walFiles = <<>> THEN t ELSE now
    /\ phase' = "open"
    /\ UNCHANGED <<ckpt, blockFiles, engine, threads, lsm, cm, rec, hist, blk, ckptDir, cmCtx, wpc, cpc>>

\* WAL.append as a whole: the size check with rotate, the timestamp from the
\* clock, Write, Flush, Sync
appendCall(op, k, v, t) ==
    /\ phase = "open"
    /\ WalCount(walFiles) < MaxWalRecs
    /\ LET cur == IF walSize(walFiles) >= walMaxSize THEN rotate(walFiles, t)
                  ELSE walFiles
       IN walFiles' = AppendRec(cur, [ts |-> t, op |-> op, key |-> k, val |-> v])
    /\ now' = t
    /\ UNCHANGED <<ckpt, blockFiles, phase, engine, threads, lsm, cm, rec, hist, blk, ckptDir, cmCtx, wpc, cpc>>

\* WAL.ReplayFrom with a callback that collects the entries it is handed
ReplayFromCall(from) ==
    /\ phase = "open"
    /\ LET r == ReplayFrom(walFiles, from)
       IN /\ replayTodo' = r.recs
          /\ replayErr' = r.err
    /\ UNCHANGED <<disk, phase, engine, threads, lsm, cm, replayCount, loaded, hist, blk, ckptDir, cmCtx, wpc, cpc>>

\* WAL.Close, or the end of the process
WalCloseCall ==
    /\ phase = "open"
    /\ phase' = "down"
    /\ replayTodo' = <<>>
    /\ replayErr' = FALSE
    /\ UNCHANGED <<disk, engine, threads, lsm, cm, replayCount, loaded, hist, blk, ckptDir, cmCtx, wpc, cpc>>

WalNext ==
    \/ \E t \in ClockReadings : NewWALCall(t)
    \/ \E k \in Keys, v \in Vals, t \in ClockReadings : appendCall(OpTypePut, k, v, t)
    \/ \E k \in Keys, t \in ClockReadings : appendCall(OpTypeDelete, k, NoVal, t)
    \/ \E from \in 0..MaxClock : ReplayFromCall(from)
    \/ WalCloseCall

WalSpec == Init /\ [][WalNext]_vars

\* ------------------------------------------------- building a block
\* Engine.flush builds a block from a memtable: one Add per entry of the map, in
\* the order the range statement yields them (any order), then Finalize inside
\* LSMTree.Write. Two blocks are built side by side.
MaxPairs == 2

\* the bytes of a value of length ValLen(v)
ValBytes(v) == [i \in 1..ValLen(v) |-> 48 + v]

\* one step of the sort of Finalize: p goes before the first pair with a
\* greater key (bytes.Compare); for slices this short sort.Slice is an
\* insertion sort
RECURSIVE InsertPair(_, _)
InsertPair(sorted, p) ==
    IF sorted = <<>> THEN <<p>>
    ELSE IF BytesLess(KeyBytes(p.key), KeyBytes(Head(sorted).key)) THEN <<p>> \o sorted
    ELSE <<Head(sorted)>> \o InsertPair(Tail(sorted), p)

\* a Finalize that leaves the pairs in the order of their Add calls
sortPairs_AsAdded(s) == s

\* Block.Finalize: sort.Slice of the pairs by key
RECURSIVE sortPairs(_)
sortPairs(s) ==
    IF s = <<>> THEN <<>>
    ELSE InsertPair(sortPairs(SubSeq(s, 1, Len(s) - 1)), s[Len(s)])

\* Block.Finalize: key length, key, value length, value of each pair
RECURSIVE encodePairs(_)
encodePairs(s) ==
    IF s = <<>> THEN <<>>
    ELSE <<KeyLen(Head(s).key)>> \o KeyBytes(Head(s).key)
         \o <<ValLen(Head(s).val)>> \o ValBytes(Head(s).val) \o encodePairs(Tail(s))

\* Block.Finalize: Data is the pair count followed by the sorted pairs
blockData(pairs) == <<Len(pairs)>> \o encodePairs(sortPairs(pairs))

\* sha256.Sum256(b.Data), taken to be free of collisions: the digest is
\* represented by the bytes it is computed from
sha256Sum(data) == data

\* the keys a block holds
PairKeys(pairs) == {pairs[i].key : i \in 1..Len(pairs)}

\* one iteration of the loop of Engine.flush: Block.Add of an entry of the map
\* that the range has not yielded yet
BlockAdd(b, k, v) ==
    /\ ~blk[b].final
    /\ Len(blk[b].pairs) < MaxPairs
    /\ k \notin PairKeys(blk[b].pairs)
    /\ blk' = [blk EXCEPT ![b].pairs = Append(@, [key |-> k, val |-> v]),
                          ![b].added = Append(@, [key |-> k, val |-> v])]
    /\ UNCHANGED <<disk, phase, engine, threads, lsm, cm, rec, hist, ckptDir, cmCtx, wpc, cpc>>

\* Block.Finalize
FinalizeCall(b) ==
    /\ ~blk[b].final
    /\ blk' = [blk EXCEPT ![b].pairs = sortPairs(@),
                          ![b].data = blockData(blk[b].pairs),
                          ![b].id = sha256Sum(blockData(blk[b].pairs)),
                          ![b].final = TRUE]
    /\ UNCHANGED <<disk, phase, engine, threads, lsm, cm, rec, hist, ckptDir, cmCtx, wpc, cpc>>

BlockNext ==
    \/ \E b \in 1..2, k \in AllKeys, v \in Vals : BlockAdd(b, k, v)
    \/ \E b \in 1..2 : FinalizeCall(b)

BlockSpec == Init /\ [][BlockNext]_vars

\* ------------------------------------- compaction cycles on a given directory
\* The engine is opened on a data directory that already holds block files in
\* L0, L1 and L2 (left there by earlier runs), and Engine.RunCompaction is called
\* while the workers take tasks. The directory is the input.
MaxL0Files == 5
MaxL1Files == 2
MaxL2Files == 1

\* the blocks of the directory: a small one in L0, the largest one elsewhere
SmallTable == [k \in AllKeys |-> IF k = 1 THEN 1 ELSE NoVal]
LargeTable == [k \in AllKeys |-> IF k \in Keys THEN MaxVal ELSE NoVal]

\* a block file of table t in the directory of a level
LevelFile(level, t, name) == [BlockFile(t, name) EXCEPT !.level = level]

\* the last name timestamp in a directory
DirClock == MaxL0Files + MaxL1Files + MaxL2Files

\* a directory with n0, n1 and n2 block files in L0, L1 and L2
Dir(n0, n1, n2) ==
    {LevelFile(0, SmallTable, i) : i \in 1..n0}
    \cup {LevelFile(1, LargeTable, MaxL0Files + i) : i \in 1..n1}
    \cup {LevelFile(2, LargeTable, MaxL0Files + MaxL1Files + i) : i \in 1..n2}

\* no process; the data directory holds some blocks, the clock is past their names
CycleInit ==
    /\ \E n0 \in 0..MaxL0Files, n1 \in 0..MaxL1Files, n2 \in 0..MaxL2Files :
           blockFiles = Dir(n0, n1, n2)
    /\ now = DirClock
    /\ walFiles = <<>>
    /\ ckpt = NoCkpt
    /\ phase = "down"
    /\ memTable = EmptyTable
    /\ memTableSize = 0
    /\ lastTs = 0
    /\ closed = FALSE
    /\ mu = "free"
    /\ flushChan = 0
    /\ walErr = FALSE
    /\ hpc = [c \in Callers |-> Idle]
    /\ mpc = "idle"
    /\ fpc = "idle"
    /\ flushing = EmptyTable
    /\ levels = [l \in Levels |-> <<>>]
    /\ compacting = FALSE
    /\ taskChan = <<>>
    /\ stats = EmptyStats
    /\ replayTodo = <<>>
    /\ replayErr = FALSE
    /\ replayCount = 0
    /\ loaded = NoLoad
    /\ acked = EmptyTable
    /\ appliedTs = 0
    /\ ckptLoaded = NoCkpt
    /\ restarts = 0
    /\ flushes = 0
    /\ blk = NoBlocks
    /\ ckptDir = NoSave
    /\ cmCtx = NewManager
    /\ wpc = [w \in Workers |-> NotStarted]
    /\ cpc = NoCopy

CycleNext ==
    \/ Open
    \/ RecoverLoad
    \/ RecoverDone
    \/ RunCompaction
    \/ WorkerCompact

CycleSpec == CycleInit /\ [][CycleNext]_vars

\* --------------------------------------------- the task queue filling up
\* An open engine under write load: each flushed memtable brings L0 over its
\* threshold and each RunCompaction schedules it. The writer flushes the next
\* block once L0 has been scheduled. The workers take no task during the run:
\* all of them are still busy (no step of this specification is theirs).
MaxQueueWrites == taskChanCap + 2

\* a memtable whose block alone is over the threshold of L0
QueueTable == [k \in AllKeys |-> IF k = 1 THEN MaxVal ELSE NoVal]

\* Engine.flush of such a memtable: LSMTree.Write of its block to L0
WriteDue ==
    /\ phase = "open"
    /\ levels[0] = <<>>
    /\ flushes < MaxQueueWrites
    /\ now' = now + 1
    /\ blockFiles' = blockFiles \cup {BlockFile(QueueTable, now + 1)}
    /\ levels' = LsmWrite(levels, QueueTable, now + 1)
    /\ compacting' = (compacting \/ shouldCompact(levels', 0))
    /\ flushes' = flushes + 1
    /\ UNCHANGED <<walFiles, ckpt, phase, engine, threads, cm, rec, acked, appliedTs,
                   ckptLoaded, restarts, blk, ckptDir, cmCtx, wpc, cpc>>

QueueNext ==
    \/ Open
    \/ RecoverLoad
    \/ RecoverDone
    \/ WriteDue
    \/ RunCompaction

QueueSpec == Init /\ [][QueueNext]_vars

\* ------------------------------------------ ScheduleCompaction on its own
\* A CompactionManager whose ScheduleCompaction is called directly, with an
\* empty or a non-empty block list, while no worker takes a task.
MaxDrops == 2

\* a block list of one block
SchedBlocks == LsmWrite([l \in Levels |-> <<>>], QueueTable, 1)[0]

\* c.ScheduleCompaction(0, 1, blocks)
ScheduleCall(blocks) ==
    /\ stats.TasksDropped < MaxDrops
    /\ LET r == ScheduleCompaction([q |-> taskChan, st |-> stats], 0, 1, blocks)
       IN /\ taskChan' = r.q
          /\ stats' = r.st
    /\ UNCHANGED <<disk, phase, engine, threads, lsm, rec, hist, blk, ckptDir, cmCtx, wpc, cpc>>

SchedNext == \E blocks \in {<<>>, SchedBlocks} : ScheduleCall(blocks)

SchedSpec == Init /\ [][SchedNext]_vars

\* ------------------------------------------------------ lock order
\* the goroutines that take Engine.mu: the callers, the goroutine that calls
\* Close, the flusher
LockThreads == {<<"caller", c>> : c \in Callers} \cup {<<"main", 0>>, <<"flusher", 0>>}

\* the locks goroutine t holds between two of its steps. Engine.mu is held by
\* Close from its Lock to its deferred Unlock, and by a Put or Delete from its
\* Lock to its deferred Unlock; WAL.mu (inside append) and LSMTree.mu (inside
\* Write, Read, RunCompaction) are taken and released inside one step, and
\* none of these sections calls into the Engine.
LocksHeld(t) ==
    IF t[1] = "main" THEN (IF mu = "main" THEN {"Engine"} ELSE {})
    ELSE IF t[1] = "flusher" THEN {}
    ELSE IF hpc[t[2]].stage = "appended" /\ mu = HeldByCaller THEN {"Engine"} ELSE {}

\* the lock goroutine t has requested and not yet been granted: Close is at the
\* RLock of createCheckpoint or at the Lock of flush, a caller or the flusher
\* is at its Lock
LockRequested(t) ==
    IF t[1] = "main" THEN (IF mpc \in {"close_checkpoint", "close_flush"} THEN {"Engine"} ELSE {})
    ELSE IF t[1] = "flusher" THEN (IF fpc = "lock" THEN {"Engine"} ELSE {})
    ELSE IF hpc[t[2]].stage = "lock" THEN {"Engine"} ELSE {}

\* t waits for a lock that u holds
WaitsFor(t, u) == LockRequested(t) \cap LocksHeld(u) # {}

\* the goroutines t reaches along WaitsFor in at most n steps
RECURSIVE WaitReach(_, _)
WaitReach(t, n) ==
    IF n = 0 THEN {}
    ELSE LET near == {u \in LockThreads : WaitsFor(t, u)}
         IN near \cup UNION {WaitReach(u, n - 1) : u \in near}

\* --------------------------------------- Checkpoint.Save step by step
\* A Checkpoint used alone on one directory, with Save taken one system call at
\* a time and a crash possible between any two. mpc is the position of the
\* goroutine inside Save. The document is written in DocUnits parts; a crash
\* keeps of a file every part that was fsynced and any number of the parts
\* written after that.
DocUnits == 2

\* the tables handed to Save
SaveTables == {EmptyTable, SmallTable, LargeTable}

\* what is read from a file that holds n parts of the document doc
FileWith(doc, n) == IF n = DocUnits THEN doc ELSE [doc EXCEPT !.decodable = FALSE]

\* a Sync that returns without writing anything back
fileSync_Nothing(d) == d

\* file.Sync: every part written so far is on the disk
fileSync(d) == [d EXCEPT !.durable = d.written]

\* Save up to os.Create: the document is built, checkpoint.json.tmp is created
\* or truncated (old is a history field: checkpoint.json as this Save found it)
SaveCreate(t, ts) ==
    /\ mpc = "idle"
    /\ ckptDir' = [file |-> "tmp", doc |-> CheckpointSave(t, TableBytes(t), ts, 0),
                   written |-> 0, durable |-> 0, old |-> ckpt]
    /\ mpc' = "save_created"
    /\ UNCHANGED <<disk, phase, engine, hpc, fpc, flushing, lsm, cm, rec, hist, blk, cmCtx, wpc, cpc>>

\* encoder.Encode: the next part of the document reaches the file, or the write
\* fails and Save closes the file and returns the error
SaveEncode(ok) ==
    /\ mpc = "save_created"
    /\ IF ok
       THEN /\ ckptDir' = [ckptDir EXCEPT !.written = @ + 1]
            /\ mpc' = IF ckptDir.written + 1 = DocUnits THEN "save_encoded" ELSE "save_created"
       ELSE /\ mpc' = "idle"
            /\ UNCHANGED ckptDir
    /\ UNCHANGED <<disk, phase, engine, hpc, fpc, flushing, lsm, cm, rec, hist, blk, cmCtx, wpc, cpc>>

\* file.Sync, or its error returned
SaveSync(ok) ==
    /\ mpc = "save_encoded"
    /\ ckptDir' = IF ok THEN fileSync(ckptDir) ELSE ckptDir
    /\ mpc' = IF ok THEN "save_synced" ELSE "idle"
    /\ UNCHANGED <<disk, phase, engine, hpc, fpc, flushing, lsm, cm, rec, hist, blk, cmCtx, wpc, cpc>>

\* file.Close, or its error returned
SaveClose(ok) ==
    /\ mpc = "save_synced"
    /\ mpc' = IF ok THEN "save_closed" ELSE "idle"
    /\ UNCHANGED <<disk, phase, engine, hpc, fpc, flushing, lsm, cm, rec, hist, blk, ckptDir, cmCtx, wpc, cpc>>

\* os.Rename(tempPath, c.path): checkpoint.json is the file that was written; or
\* the error of Rename returned
SaveRename(ok) ==
    /\ mpc = "save_closed"
    /\ ckpt' = IF ok THEN FileWith(ckptDir.doc, ckptDir.written) ELSE ckpt
    /\ ckptDir' = IF ok THEN [ckptDir EXCEPT !.file = "json"] ELSE ckptDir
    /\ mpc' = "idle"
    /\ UNCHANGED <<now, walFiles, blockFiles, phase, engine, hpc, fpc, flushing, lsm, cm,
                   rec, hist, blk, cmCtx, wpc, cpc>>

\* a crash at any position of Save, or between two Saves: of the file written
\* last, n parts are found afterwards
SaveCrash ==
    /\ restarts < MaxRestarts
    /\ \E n \in ckptDir.durable..ckptDir.written :
          /\ ckptDir' = [ckptDir EXCEPT !.written = n]
          /\ ckpt' = IF ckptDir.file = "json" THEN FileWith(ckptDir.doc, n) ELSE ckpt
    /\ mpc' = "idle"
    /\ restarts' = restarts + 1
    /\ UNCHANGED <<now, walFiles, blockFiles, phase, engine, hpc, fpc, flushing, lsm, cm,
                   rec, acked, appliedTs, ckptLoaded, flushes, blk, cmCtx, wpc, cpc>>

SaveNext ==
    \/ \E t \in SaveTables, ts \in 0..MaxRecs : SaveCreate(t, ts)
    \/ \E ok \in BOOLEAN : SaveEncode(ok)
    \/ \E ok \in BOOLEAN : SaveSync(ok)
    \/ \E ok \in BOOLEAN : SaveClose(ok)
    \/ \E ok \in BOOLEAN : SaveRename(ok)
    \/ SaveCrash
    \/ LoadCall

SaveSpec == Init /\ [][SaveNext]_vars

\* ------------------------------------- the CompactionManager on its own
\* A CompactionManager used through Start, ScheduleCompaction and Stop, with
\* every worker goroutine a process of its own. A panic ends the process: no
\* goroutine takes a step after it.
MaxStopTasks == 2

\* CompactionManager.Start: the worker goroutines are created
StartCall ==
    /\ ~cmCtx.started
    /\ cmCtx' = [cmCtx EXCEPT !.started = TRUE]
    /\ wpc' = [w \in Workers |-> [at |-> "select", task |-> NoTask]]
    /\ UNCHANGED <<disk, phase, engine, threads, lsm, cm, rec, hist, blk, ckptDir, cpc>>

\* CompactionManager.ScheduleCompaction of a task with blocks, called at any
\* time: the send case of its select is chosen at once on a closed channel,
\* and a send on a closed channel panics
SendTask ==
    /\ ~cmCtx.panicked
    /\ cmCtx.sent < MaxStopTasks
    /\ IF cmCtx.chanClosed
       THEN /\ cmCtx' = [cmCtx EXCEPT !.panicked = TRUE, !.sent = @ + 1]
            /\ UNCHANGED <<taskChan, stats>>
       ELSE LET r == ScheduleCompaction([q |-> taskChan, st |-> stats], 0, 1, SchedBlocks)
            IN /\ taskChan' = r.q
               /\ stats' = r.st
               /\ cmCtx' = [cmCtx EXCEPT !.sent = @ + 1]
    /\ UNCHANGED <<disk, phase, engine, threads, lsm, rec, hist, blk, ckptDir, wpc, cpc>>

\* the cases of the worker's select that can proceed: ctx.Done() once the
\* context is cancelled, the receive when the queue holds a task or is closed
ReadyCases ==
    (IF cmCtx.cancelled THEN {"done"} ELSE {})
        \cup (IF taskChan # <<>> \/ cmCtx.chanClosed THEN {"recv"} ELSE {})

\* CompactionManager.worker at its select: one of the cases that can proceed is
\* taken. ctx.Done() and a receive from the closed and empty queue end the
\* goroutine; a received task sets TasksInQueue and is compacted next
WorkerSelect(w) ==
    /\ ~cmCtx.panicked
    /\ wpc[w].at = "select"
    /\ \E case \in ReadyCases :
          IF case = "recv" /\ taskChan # <<>>
          THEN /\ wpc' = [wpc EXCEPT ![w] = [at |-> "compact", task |-> Head(taskChan)]]
               /\ taskChan' = Tail(taskChan)
               /\ stats' = [stats EXCEPT !.TasksInQueue = Len(taskChan) - 1]
          ELSE /\ wpc' = [wpc EXCEPT ![w] = [at |-> "exited", task |-> NoTask]]
               /\ UNCHANGED <<taskChan, stats>>
    /\ UNCHANGED <<disk, phase, engine, threads, lsm, rec, hist, blk, ckptDir, cmCtx, cpc>>

\* CompactionManager.worker after the receive: compact, the statistics, back to
\* the select
WorkerFinish(w) ==
    /\ ~cmCtx.panicked
    /\ wpc[w].at = "compact"
    /\ blockFiles' = compact(blockFiles, wpc[w].task, now + 1)
    /\ now' = now + 1
    /\ stats' = [stats EXCEPT !.CompactionCount = @ + 1,
                              !.BlocksCompacted = @ + Len(wpc[w].task.blocks),
                              !.TasksInQueue = Len(taskChan)]
    /\ wpc' = [wpc EXCEPT ![w] = [at |-> "select", task |-> NoTask]]
    /\ UNCHANGED <<walFiles, ckpt, phase, engine, threads, lsm, taskChan, rec, hist, blk,
                   ckptDir, cmCtx, cpc>>

\* CompactionManager.Stop, c.cancel()
StopCancel ==
    /\ ~cmCtx.panicked
    /\ cmCtx.started
    /\ cmCtx.stop = "none"
    /\ cmCtx' = [cmCtx EXCEPT !.cancelled = TRUE, !.stop = "cancelled"]
    /\ UNCHANGED <<disk, phase, engine, threads, lsm, cm, rec, hist, blk, ckptDir, wpc, cpc>>

\* CompactionManager.Stop, close(c.taskChan)
StopCloseChan ==
    /\ ~cmCtx.panicked
    /\ cmCtx.stop = "cancelled"
    /\ cmCtx' = [cmCtx EXCEPT !.chanClosed = TRUE, !.stop = "waiting"]
    /\ UNCHANGED <<disk, phase, engine, threads, lsm, cm, rec, hist, blk, ckptDir, wpc, cpc>>

\* a Wait that returns whatever the counter is
wgWait_NoWait == TRUE

\* c.wg.Wait() can return: every worker has run its deferred wg.Done()
wgWait == \A w \in Workers : wpc[w].at = "exited"

\* CompactionManager.Stop returns from c.wg.Wait()
StopReturn ==
    /\ ~cmCtx.panicked
    /\ cmCtx.stop = "waiting"
    /\ wgWait
    /\ cmCtx' = [cmCtx EXCEPT !.stop = "returned"]
    /\ UNCHANGED <<disk, phase, engine, threads, lsm, cm, rec, hist, blk, ckptDir, wpc, cpc>>

StopNext ==
    \/ StartCall
    \/ SendTask
    \/ \E w \in Workers : WorkerSelect(w)
    \/ \E w \in Workers : WorkerFinish(w)
    \/ StopCancel
    \/ StopCloseChan
    \/ StopReturn

StopSpec == Init /\ [][StopNext]_vars

\* the Go scheduler runs every goroutine that can take a step: the goroutine in
\* Stop and each worker
FairStopSpec ==
    /\ StopSpec
    /\ WF_vars(StopCloseChan)
    /\ WF_vars(StopReturn)
    /\ \A w \in Workers : WF_vars(WorkerSelect(w)) /\ WF_vars(WorkerFinish(w))

\* ------------------------------------------------- a flush that fails
\* the outcomes of LSMTree.Write with an error: MkdirAll or os.Create failed,
\* or Block.Encode failed after the file was created
WriteErrors == {"create", "encode"}

\* Engine.flush after Unlock when LSMTree.Write returns an error: no blockInfo
\* is appended; an Encode that failed leaves its file, not a whole block, in
\* data/L0. flush returns the error, backgroundFlusher prints it and takes the
\* next signal; the table that was swapped out is referenced by nothing.
FlushWriteFails(kind) ==
    /\ fpc = "write"
    /\ now' = now + 1
    /\ blockFiles' = IF kind = "encode"
                     THEN blockFiles \cup {[BlockFile(flushing, now + 1) EXCEPT !.valid = FALSE]}
                     ELSE blockFiles
    /\ flushing' = EmptyTable
    /\ fpc' = "idle"
    /\ UNCHANGED <<walFiles, ckpt, phase, engine, hpc, mpc, lsm, cm, rec, hist, blk,
                   ckptDir, cmCtx, wpc, cpc>>

\* one engine, one caller, the flusher, and block writes that may fail
FlushNext ==
    \/ Open
    \/ RecoverLoad
    \/ RecoverDone
    \/ \E k \in Keys, v \in Vals : Put(1, k, v, "ok")
    \/ PutApply(1)
    \/ FlusherRecv
    \/ FlushSwap
    \/ FlushWrite
    \/ \E kind \in WriteErrors : FlushWriteFails(kind)

FlushSpec == Init /\ [][FlushNext]_vars

\* ------------------------------------- the checkpointer during recovery
\* NewEngine starts backgroundCheckpointer before it calls recover, and recover
\* writes memTable, memTableSize and lastCheckpointedWALTimestamp without
\* Engine.mu. While recover runs, createCheckpoint is therefore not one step:
\* the copy of the memtable and the reading of the other two fields are apart,
\* and recover's writes can fall between them. (With the engine open every
\* writer holds the write side of Engine.mu and createCheckpoint is the one step
\* Checkpoint.) mu = "reader" is the read side held by the checkpointer.

\* createCheckpoint up to the end of its copy loop, RLock taken
CkptCopy ==
    /\ phase \in {"loading", "replaying"}
    /\ ~closed
    /\ mu = "free"
    /\ cpc.at = "idle"
    /\ cpc' = [at |-> "copied", copy |-> memTable, applied |-> appliedTs]
    /\ mu' = "reader"
    /\ UNCHANGED <<disk, phase, memTable, memTableSize, lastTs, closed, flushChan, walErr,
                   threads, lsm, cm, rec, hist, blk, ckptDir, cmCtx, wpc>>

\* createCheckpoint from the call of Checkpoint.Save, whose arguments read
\* e.memTableSize and e.lastCheckpointedWALTimestamp, to the deferred RUnlock
CkptSave ==
    /\ cpc.at = "copied"
    /\ ckpt' = CheckpointSave(cpc.copy, memTableSize, lastTs, cpc.applied)
    /\ cpc' = NoCopy
    /\ mu' = "free"
    /\ UNCHANGED <<now, walFiles, blockFiles, phase, memTable, memTableSize, lastTs, closed,
                   flushChan, walErr, threads, lsm, cm, rec, hist, blk, ckptDir, cmCtx, wpc>>

\* the checkpointer holds the read side of Engine.mu and is between its reads
CheckpointerInside == cpc.at = "copied"

\* an engine written to, ended by a crash and opened again, with the
\* checkpointer running from the start of NewEngine
RaceNext ==
    \/ Open
    \/ RecoverLoad
    \/ ReplayStep
    \/ RecoverDone
    \/ \E k \in Keys, v \in Vals : Put(1, k, v, "ok")
    \/ PutApply(1)
    \/ Checkpoint
    \/ CkptCopy
    \/ CkptSave
    \/ Crash

RaceSpec == Init /\ [][RaceNext]_vars

\* ----------------------------------------------------------- claims
\* the WAL holds a Put of v on k
Durable(k, v) ==
    \E i \in 1..WalCount(walFiles) :
        LET r == WalAll(walFiles)[i]
        IN r.op = OpTypePut /\ r.key = k /\ r.val = v

\* C1: after a crash and a reopen of the same directory, Get answers for every
\* key as the last acknowledged Put or Delete on it left it (a key whose last
\* call was cut by the crash is left open). Stated for directories in which no
\* flush has run, so that only the WAL and the checkpoint carry the data.
C1_DurableAcrossCrash ==
    (phase = "open" /\ restarts > 0 /\ flushes = 0)
        => \A k \in Keys : acked[k] # InDoubt => EngineGet(k) = acked[k]

\* C2: while no flush has run, in the process that created the directory, Get
\* answers as a map: the value of the last Put on k, not found when the last
\* operation on k was a Delete, and keys no operation touched keep their answer.
C2_MapWhileNoFlush ==
    (phase = "open" /\ restarts = 0 /\ flushes = 0)
        => \A k \in Keys : EngineGet(k) = acked[k]

\* C2 witness: a key was put and then deleted, both calls have returned, and
\* Get answers not found for it
C2_Witness ==
    /\ phase = "open" /\ restarts = 0 /\ flushes = 0 /\ hpc[1] = Idle
    /\ WalCount(walFiles) = 2
    /\ WalAll(walFiles)[1].op = OpTypePut
    /\ LastRec(walFiles).op = OpTypeDelete
    /\ LastRec(walFiles).key = WalAll(walFiles)[1].key
    /\ EngineGet(LastRec(walFiles).key) = NoVal

\* C3: in one process, once put(k,v) has returned and until the next Put or
\* Delete on k, Get(k) answers v, whatever the flusher and the compaction do in
\* between.
C3_ReadYourWrites ==
    (phase = "open" /\ restarts = 0)
        => \A k \in Keys : acked[k] # NoVal => EngineGet(k) = acked[k]

\* a step of an open engine that changes a memtable entry, other than the
\* flusher's swap, finds the matching record as the last record of the WAL
C4_Step ==
    \A k \in Keys :
        (phase = "open" /\ phase' = "open" /\ memTable'[k] # memTable[k]
            /\ flushes' = flushes)
        => /\ WalCount(walFiles) > 0
           /\ LastRec(walFiles).key = k
           /\ \/ LastRec(walFiles).op = OpTypePut /\ memTable'[k] = LastRec(walFiles).val
              \/ LastRec(walFiles).op = OpTypeDelete /\ memTable'[k] = NoVal

\* C4: a Put or Delete changes the memtable only after its record has been
\* written, flushed and fsynced to the WAL, and every value a Get can return has
\* a durable Put record.
C4_WalBeforeMemtable ==
    /\ [](\A k \in Keys : EngineGet(k) # NoVal => Durable(k, EngineGet(k)))
    /\ [][C4_Step]_vars

\* C4 witness: a Put has returned and its value is in the memtable
C4_Witness ==
    /\ phase = "open" /\ restarts = 0 /\ hpc[1] = Idle
    /\ \E k \in Keys : memTable[k] # NoVal /\ Durable(k, memTable[k])


\* C5: a Close call on an open engine returns (the process may also end first)
C5_CloseReturns ==
    (phase = "open" /\ mpc = "close_checkpoint") ~> (mpc = "closed" \/ phase = "down")

\* C6: in one process, once every scheduled compaction task has completed and
\* no flush is in progress, every key with an acknowledged value still answers
\* that value.
C6_CompactionKeepsKeys ==
    (phase = "open" /\ restarts = 0 /\ stats.CompactionCount > 0 /\ taskChan = <<>>
        /\ fpc # "write")
        => \A k \in Keys : acked[k] # NoVal => EngineGet(k) = acked[k]

\* C7: a WAL file whose last record is torn (payload cut short, or CRC not
\* matching) does not make the replay end with an error, and open succeeds.
C7_TornTailDiscarded ==
    (walFiles # <<>>
        /\ walFiles[Len(walFiles)].torn \in {"payload", "crc"}
        /\ walFiles[Len(walFiles)].tornAt = Len(walFiles[Len(walFiles)].recs))
        => (~replayErr /\ phase # "failed")

\* C8: the checkpoint on disk stores as last WAL timestamp the timestamp of the
\* last WAL record applied to the table it stores. Stated while no flush has
\* emptied the table.
C8_CheckpointTimestamp ==
    (ckpt.exists /\ flushes = 0) => ckpt.lastWALTimestamp = ckpt.applied

\* the WAL records appended after the table of checkpoint c was saved
RecordsAfter(c) ==
    {i \in 1..WalCount(walFiles) : WalAll(walFiles)[i].ts > c.applied}

\* C9: a recovery that loaded a checkpoint replays at most the records appended
\* after that checkpoint's table was saved.
C9_ReplayOnlyNewRecords ==
    (phase = "replaying" /\ ckptLoaded.exists /\ flushes = 0)
        => replayCount + Len(replayTodo) <= Cardinality(RecordsAfter(ckptLoaded))

\* C10: a Put, Get or Delete called after Close has set the closed flag returns
\* (with the closed error; the process may also end first)
C10_ClosedCallsReturn ==
    (phase = "open" /\ closed /\ hpc[1].stage = "lock") ~> (hpc[1] = Idle)

\* C11: a Close call made after a first Close call returns (it then has
\* written no checkpoint, flushed no block and closed nothing; the process may
\* also end first)
C11_CloseAgainReturns ==
    (phase = "open" /\ hpc[1].op = "close") ~> (hpc[1] = Idle \/ phase = "down")

\* C12: a Put with the empty key is refused: the WAL holds no Put record with
\* the empty key and the memtable has no entry for it
C12_EmptyKeyRejected ==
    /\ \A i \in 1..WalCount(walFiles) :
           ~(WalAll(walFiles)[i].op = OpTypePut /\ WalAll(walFiles)[i].key = EmptyKey)
    /\ memTable[EmptyKey] = NoVal

\* the return of a Put or Delete whose WAL append failed: the call returns the
\* error, the memtable and its size counter are as they were
C13_Step ==
    \A c \in Callers :
        (hpc[c].stage = "appended" /\ hpc[c].res # "ok" /\ hpc'[c] = Idle
            /\ phase' = "open")
        => /\ AppendErr(hpc[c].res)
           /\ memTable' = memTable
           /\ memTableSize' = memTableSize

\* C13: when the WAL append of a Put or Delete fails (at the write, the buffer
\* flush or the fsync), the call returns the error and the memtable and its
\* size counter are exactly as before the call.
C13_AppendErrorLeavesMemtable == [][C13_Step]_vars

\* C13 witness: a call has returned after a failed flush of the WAL writer, on
\* an engine whose memtable holds an entry
C13_Witness ==
    /\ phase = "open" /\ walErr /\ hpc[1] = Idle /\ mu = "free"
    /\ \E k \in Keys : memTable[k] # NoVal
    /\ memTableSize = TableBytes(memTable)

\* C14: a Get on an open engine for a key that is neither in the memtable nor
\* in any level answers absent with a nil error
C14_AbsentIsNotAnError ==
    (phase = "open" /\ ~closed)
        => \A k \in Keys : EngineGet(k) = NoVal => EngineGetErr(k) = "nil"

\* C15: when the replay has met a record with a wrong CRC that is not the last
\* record of its file and the recovery has been aborted, NewEngine returns the
\* error to its caller (the process may also end first)
C15_CorruptionReturned ==
    (/\ phase = "failed"
     /\ \E i \in 1..Len(walFiles) :
            walFiles[i].torn = "crc" /\ walFiles[i].tornAt < Len(walFiles[i].recs))
        ~> (mpc = "closed" \/ phase = "down")

\* a Load that follows a Save returns what was handed to the Save
C16_Step ==
    (ckpt.exists /\ loaded' # loaded)
        => /\ loaded'.memTable = memTable
           /\ loaded'.memTableSize = memTableSize
           /\ loaded'.lastWALTimestamp = lastTs

\* C16: for every table, size and last-WAL timestamp, a Load after a Save, also
\* from a new Checkpoint object on the same directory, returns the same table
\* (same keys, same values), the same size and the same timestamp.
C16_SaveLoadRoundTrip == [][C16_Step]_vars

\* the first half of a recovery that finds no checkpoint file, or one that does
\* not decode: Load returns the empty table, size 0 and timestamp 0, the engine
\* starts from them and the replay takes the WAL from timestamp 0
C17_Step ==
    (phase = "loading" /\ phase' = "replaying" /\ (~ckpt.exists \/ ~ckpt.decodable))
        => /\ loaded' = [done |-> TRUE, memTable |-> EmptyTable, memTableSize |-> 0,
                         lastWALTimestamp |-> 0]
           /\ memTable' = EmptyTable
           /\ memTableSize' = 0
           /\ lastTs' = 0
           /\ replayTodo' = ReplayFrom(walFiles, 0).recs

\* C17: Checkpoint.Load returns an empty table, size 0 and timestamp 0, with no
\* error, when the checkpoint file does not exist and when its content cannot
\* be decoded; the recovery then starts from the empty state and replays the
\* WAL from timestamp 0.
C17_LoadFallsBackToEmpty == [][C17_Step]_vars

\* C17 witness: a recovery has loaded a checkpoint file that holds a table with
\* entries and does not decode, and is about to replay WAL records onto the
\* empty table
C17_Witness ==
    /\ phase = "replaying" /\ replayCount = 0
    /\ ckptLoaded.exists /\ ~ckptLoaded.decodable
    /\ ckptLoaded.memTable # EmptyTable
    /\ loaded.done /\ loaded.memTable = EmptyTable
    /\ memTable = EmptyTable /\ lastTs = 0
    /\ replayTodo # <<>>

\* C18: when a Put has brought the size counter to maxMemTableSize or above and
\* has signalled the flusher, a flush that swaps the memtable after that Put
\* runs to its end (the process may also end first), and at its end every key
\* with an acknowledged value answers that value. Stated for flushes within
\* the bound on the number of blocks.
C18_FlushAfterThreshold ==
    \A n \in 0..(MaxBlocks - 1) :
        (phase = "open" /\ flushChan = 1 /\ memTableSize >= maxMemTableSize
            /\ flushes = n)
        ~> \/ phase = "down"
           \/ /\ flushes > n
              /\ fpc = "idle"
              /\ Len(levels[0]) > 0
              /\ \A k \in Keys : acked[k] \in Vals => EngineGet(k) = acked[k]

\* C19: each of levels 1..6 is sorted ascending by minKey and its blocks have
\* disjoint key ranges: for adjacent blocks a, b of a level, a.maxKey < b.minKey
C19_LevelsSortedDisjoint ==
    \A l \in 1..(NumLevels - 1) :
        \A i \in 1..(Len(levels[l]) - 1) :
            StrLess(levels[l][i].maxKey, levels[l][i + 1].minKey)

\* what the last WAL record on key k leaves in a map: its value for a Put, no
\* entry for a Delete or when the WAL has no record on k
LastEffect(k) ==
    LET idx == {i \in 1..WalCount(walFiles) : WalAll(walFiles)[i].key = k}
    IN IF idx = {} THEN NoVal
       ELSE LET r == WalAll(walFiles)[CHOOSE i \in idx : \A j \in idx : i >= j]
            IN IF r.op = OpTypePut THEN r.val ELSE NoVal

\* while no call is between its append and its memtable update, an entry of
\* the memtable is the effect of the last WAL record on its key, and before the
\* first swap so is an absent entry; at most one call is between its append
\* and its update
C20_State ==
    /\ Cardinality({c \in Callers : hpc[c].stage = "appended"}) <= 1
    /\ (phase = "open" /\ \A c \in Callers : hpc[c].stage # "appended")
           => \A k \in Keys :
                  /\ memTable[k] # NoVal => memTable[k] = LastEffect(k)
                  /\ flushes = 0 => memTable[k] = LastEffect(k)

\* a call that updates the memtable applies the record appended last
C20_Step ==
    \A c \in Callers :
        (hpc[c].stage = "appended" /\ hpc'[c] = Idle /\ phase' = "open")
        => /\ LastRec(walFiles).key = hpc[c].key
           /\ LastRec(walFiles).val = hpc[c].val
           /\ LastRec(walFiles).op = (IF hpc[c].op = "put" THEN OpTypePut ELSE OpTypeDelete)
           /\ memTable'[hpc[c].key] = hpc[c].val

\* C20: with concurrent callers, Puts and Deletes are applied to the memtable
\* in the order of their WAL records, so the memtable entry of a key is the
\* effect of the last WAL record on that key appended since the last swap.
C20_WalOrderIsApplyOrder == []C20_State /\ [][C20_Step]_vars

\* C20 witness: a second record is in the WAL, appended by caller 2 which has
\* not yet updated the memtable, while caller 1 waits for Engine.mu with a
\* call on the same key
C20_Witness ==
    /\ phase = "open" /\ WalCount(walFiles) = 2
    /\ hpc[2].stage = "appended" /\ hpc[1].stage = "lock"
    /\ hpc[1].key = hpc[2].key
    /\ WalAll(walFiles)[1].key = hpc[2].key

\* the sequence of timestamps s never decreases
RECURSIVE NonDecreasing(_)
NonDecreasing(s) ==
    Len(s) < 2 \/ (s[1].ts <= s[2].ts /\ NonDecreasing(Tail(s)))

\* C21: reading the WAL files in ascending order of their name timestamps and
\* the records of each file in file order, the record timestamps never
\* decrease, whatever appends, rotations and reopens produced the files.
C21_WalTimestampsNonDecreasing ==
    /\ \A i \in 1..(Len(walFiles) - 1) : walFiles[i].name < walFiles[i + 1].name
    /\ NonDecreasing(WalAll(walFiles))

\* the WAL records with a timestamp above from, in replay order
RecordsAbove(from) == SelectSeq(WalAll(walFiles), LAMBDA r : r.ts > from)

\* C23: a ReplayFrom(from, apply) on a WAL whose timestamps never decrease hands
\* apply exactly the records with a timestamp above from, each once, in file
\* order, whatever the name timestamp of the file that holds them.
C23_Step ==
    \A from \in 0..MaxClock :
        (ReplayFromCall(from) /\ NonDecreasing(WalAll(walFiles)))
            => replayTodo' = RecordsAbove(from)
C23_ReplayExactlyTheNewer == [][C23_Step]_vars

\* C26: an append that finds the current WAL file at or above the maximum size
\* leaves that file as it is and puts its record in a new file with a later
\* name timestamp.
C26_Step ==
    (phase = "open" /\ phase' = "open" /\ walFiles' # walFiles
        /\ walSize(walFiles) >= walMaxSize)
        => /\ Len(walFiles') = Len(walFiles) + 1
           /\ SubSeq(walFiles', 1, Len(walFiles)) = walFiles
           /\ walFiles'[Len(walFiles')].name > walFiles[Len(walFiles)].name
C26_FullFileIsRotatedAway == [][C26_Step]_vars

\* the entries Add was called with, as a set
PairSet(pairs) == {pairs[i] : i \in 1..Len(pairs)}

\* C22: two blocks built from the same entries of a memtable, added in any
\* order, hold after Finalize the same Data, sorted by key, and the same
\* BlockID.
C22_SameEntriesSameBlockID ==
    (blk[1].final /\ blk[2].final /\ PairSet(blk[1].added) = PairSet(blk[2].added))
        => /\ blk[1].data = blk[2].data
           /\ blk[1].id = blk[2].id
           /\ blk[1].pairs = blk[2].pairs
           /\ \A i \in 1..(Len(blk[1].pairs) - 1) :
                  BytesLess(KeyBytes(blk[1].pairs[i].key), KeyBytes(blk[1].pairs[i + 1].key))

\* both blocks are final, with the same two entries, added in opposite orders
C22_Witness ==
    /\ blk[1].final /\ blk[2].final
    /\ PairSet(blk[1].added) = PairSet(blk[2].added)
    /\ blk[1].added # blk[2].added
    /\ blk[1].id = blk[2].id

\* C24: while the engine is open the size counter equals the sum of
\* len(key)+len(value) over the entries of the memtable; after a Put and a
\* Delete of the same key it is 0, before and after a restart.
C24_SizeCounterIsTableBytes ==
    phase = "open" => memTableSize = TableBytes(memTable)

\* C25: while the engine is open, every block file that the LSM index lists is
\* listed with the MinKey and MaxKey of its block, and every key the block holds
\* is found by LSMTree.Read; this holds for the index that NewLSMTree rebuilds
\* from the level directories as for the one LSMTree.Write builds.
C25_IndexHasBlockBounds ==
    phase = "open" =>
        \A f \in blockFiles : \A i \in 1..Len(levels[f.level]) :
            (f.valid /\ levels[f.level][i].path = [level |-> f.level, name |-> f.name])
                => /\ levels[f.level][i].minKey = BlockMinKey(f.pairs)
                   /\ levels[f.level][i].maxKey = BlockMaxKey(f.pairs)
                   /\ \A k \in Keys :
                          f.pairs[k] # NoVal => LsmRead(levels, blockFiles, k) # NoVal

\* the block files a task names
TaskSources(files, task) ==
    {f \in files : \E i \in 1..Len(task.blocks) :
        task.blocks[i].path = [level |-> f.level, name |-> f.name]}

\* C28: a block file leaves the data directory only in the step of a worker that
\* executes the task naming it, and only when that step leaves a written,
\* readable output block at the target level of the task.
C28_Step ==
    \A f \in blockFiles \ blockFiles' :
        /\ taskChan # <<>>
        /\ taskChan' = Tail(taskChan)
        /\ f \in TaskSources(blockFiles, Head(taskChan))
        /\ \E g \in blockFiles' \ blockFiles :
               g.level = Head(taskChan).targetLevel /\ g.valid
C28_SourcesDeletedAfterOutput == [][C28_Step]_vars

\* the newest of the source blocks that hold key k
NewestWith(src, k) ==
    CHOOSE f \in src : f.pairs[k] # NoVal
                       /\ \A o \in src : o.pairs[k] # NoVal => o.name <= f.name

\* the merge of the source blocks: every key of a source, with the value of the
\* newest source that holds it
MergeNewest(src) ==
    [k \in AllKeys |->
        IF \E f \in src : f.pairs[k] # NoVal THEN NewestWith(src, k).pairs[k] ELSE NoVal]

\* C29: the block a worker leaves at the target level for a task holds exactly
\* the keys of the task's source blocks, each with the value of the newest
\* source block that holds it.
C29_Step ==
    (taskChan # <<>> /\ taskChan' = Tail(taskChan) /\ blockFiles' # blockFiles)
        => \E g \in blockFiles' \ blockFiles :
               /\ g.level = Head(taskChan).targetLevel
               /\ g.valid
               /\ g.pairs = MergeNewest(TaskSources(blockFiles, Head(taskChan)))
C29_OutputIsNewestMerge == [][C29_Step]_vars

\* the blocks of a sequence of tasks, in order
RECURSIVE TaskBlocks(_)
TaskBlocks(tasks) ==
    IF tasks = <<>> THEN <<>> ELSE Head(tasks).blocks \o TaskBlocks(Tail(tasks))

\* C30: one RunCompaction cycle enqueues tasks for at most one level, the lowest
\* of the levels 0..5 for which shouldCompact holds; the block vector of every
\* other level stays as it is; the blocks of the new tasks are the blocks of that
\* level, each once: two tasks when the level is 0 and holds more than 4 blocks,
\* one task otherwise. Stated for a cycle that finds room in the queue for what
\* it schedules.
C30_Step ==
    (RunCompaction /\ Len(taskChan) + 2 <= taskChanCap) =>
        LET new == SubSeq(taskChan', Len(taskChan) + 1, Len(taskChan'))
            over == {l \in 0..5 : shouldCompact(levels, l)}
        IN /\ SubSeq(taskChan', 1, Len(taskChan)) = taskChan
           /\ IF new = <<>> THEN levels' = levels
              ELSE \E l \in over :
                      /\ \A m \in over : l <= m
                      /\ \A i \in 1..Len(new) :
                             new[i].sourceLevel = l /\ new[i].targetLevel = l + 1
                      /\ \A m \in Levels \ {l} : levels'[m] = levels[m]
                      /\ TaskBlocks(new) = levels[l]
                      /\ Len(new) = IF l = 0 /\ Len(levels[0]) > 4 THEN 2 ELSE 1
C30_OneLevelPerCycle == [][C30_Step]_vars

\* a cycle has split level 0 into two tasks and left the blocks of level 1,
\* itself over its threshold, where they were
C30_Witness ==
    /\ Len(taskChan) = 2
    /\ taskChan[1].sourceLevel = 0 /\ taskChan[2].sourceLevel = 0
    /\ Len(taskChan[1].blocks) = 3 /\ Len(taskChan[2].blocks) = 2
    /\ levels[0] = <<>>
    /\ shouldCompact(levels, 1)

\* C27: a RunCompaction cycle in which ScheduleCompaction drops a task leaves
\* the blocks of that task in the block vector of their level, where the next
\* cycle finds them and schedules them again.
C27_Step ==
    (RunCompaction /\ stats'.TasksDropped > stats.TasksDropped)
        => \E l \in 0..5 :
               /\ levels[l] # <<>>
               /\ shouldCompact(levels', l)
               /\ \A i \in 1..Len(levels[l]) :
                      \E j \in 1..Len(levels'[l]) : levels'[l][j] = levels[l][i]
C27_DroppedTaskIsProposedAgain == [][C27_Step]_vars

\* C31: a RunCompaction call that finds more than 2*numWorkers tasks waiting in
\* the task queue enqueues nothing and changes no level, whatever schedule calls
\* and dequeues came before it.
C31_Step ==
    (RunCompaction /\ Len(taskChan) > numWorkers * 2)
        => taskChan' = taskChan /\ levels' = levels
C31_FullQueueSkipsCycle == [][C31_Step]_vars

\* C32: ScheduleCompaction with a non-empty block list appends the task to the
\* queue when it has room and, when all 100 slots are taken, leaves the queue
\* as it is and raises TasksDropped by one; with an empty block list it changes
\* neither the queue nor the statistics. The call is one step: it returns.
C32_Step ==
    \A blocks \in {<<>>, SchedBlocks} :
        ScheduleCall(blocks) =>
            IF blocks = <<>> THEN taskChan' = taskChan /\ stats' = stats
            ELSE \/ /\ Len(taskChan) < taskChanCap
                    /\ taskChan' = Append(taskChan, [sourceLevel |-> 0, targetLevel |-> 1,
                                                     blocks |-> blocks])
                    /\ stats' = stats
                 \/ /\ Len(taskChan) = taskChanCap
                    /\ taskChan' = taskChan
                    /\ stats' = [stats EXCEPT !.TasksDropped = @ + 1]
C32_EnqueueOrDrop == [][C32_Step]_vars

\* the queue is full and one task has been dropped
C32_Witness ==
    Len(taskChan) = taskChanCap /\ stats.TasksDropped = 1

\* the values the indexed blocks of a level hold for key k, with the position
\* of the block in the level
LevelHits(level, k) ==
    {[i |-> p[1], v |-> p[2].pairs[k]] :
        p \in {q \in (1..Len(levels[level])) \X blockFiles :
                  /\ q[2].valid
                  /\ q[2].pairs[k] # NoVal
                  /\ levels[level][q[1]].path = [level |-> q[2].level, name |-> q[2].name]}}

\* C33: LSMTree.Read of a key returns the value of the block written last among
\* the level-0 blocks that hold the key; when no level-0 block holds it, a value
\* held by the lowest of the levels 1..6 that holds the key; and "key not
\* found" only when no level holds it.
C33_ReadFindsNewest ==
    \A k \in Keys :
        LET v == LsmRead(levels, blockFiles, k)
            held == {l \in Levels : LevelHits(l, k) # {}}
        IN IF held = {} THEN v = NoVal
           ELSE IF 0 \in held
           THEN \E h \in LevelHits(0, k) :
                    h.v = v /\ \A o \in LevelHits(0, k) : o.i <= h.i
           ELSE \E l \in held :
                    /\ \A m \in held : l <= m
                    /\ \E h \in LevelHits(l, k) : h.v = v

\* the values that the block files of the data directory hold for key k
FlushedValues(k) == {f.pairs[k] : f \in {g \in blockFiles : g.valid /\ g.pairs[k] # NoVal}}

\* C34: while the last acknowledged operation on a key is a Delete and a
\* flushed block holds the key, the memtable has no entry for it and Get
\* answers the value of a flushed block.
C34_DeleteLeavesFlushedValue ==
    \A k \in Keys :
        (phase = "open" /\ ~closed /\ hpc[1] = Idle /\ acked[k] = NoVal
            /\ FlushedValues(k) # {})
        => memTable[k] = NoVal /\ EngineGet(k) \in FlushedValues(k)

\* a Delete has returned, the deleted key is in a block of level 0 and Get
\* answers the value of that block
C34_Witness ==
    /\ phase = "open" /\ ~closed /\ hpc[1] = Idle
    /\ WalCount(walFiles) > 0
    /\ LastRec(walFiles).op = OpTypeDelete
    /\ acked[LastRec(walFiles).key] = NoVal
    /\ memTable[LastRec(walFiles).key] = NoVal
    /\ EngineGet(LastRec(walFiles).key) \in FlushedValues(LastRec(walFiles).key)


\* C35: no goroutine requests Engine.mu while it holds the LSM or the WAL lock,
\* and no goroutines wait for each other's locks in a cycle (a goroutine that
\* waits for a lock it holds itself is a cycle of one).
C35_NoLockCycle ==
    /\ \A t \in LockThreads :
          "Engine" \in LockRequested(t) => LocksHeld(t) \cap {"LSM", "WAL"} = {}
    /\ \A t \in LockThreads : t \notin WaitReach(t, Cardinality(LockThreads))


\* C36: at every position of Checkpoint.Save and after a crash at any of them,
\* checkpoint.json is absent or holds one whole document, the one this Save
\* found there or the one it writes; until the rename it is the one found; and
\* Load answers from one of the two.
C36_CheckpointFileIsWhole ==
    /\ ckpt.exists => (ckpt.decodable /\ ckpt \in {ckptDir.old, ckptDir.doc})
    /\ ckptDir.file = "tmp" => ckpt = ckptDir.old
    /\ CheckpointLoad(ckpt) \in {CheckpointLoad(ckptDir.old), CheckpointLoad(ckptDir.doc)}

\* a crash has left part of a document in checkpoint.json.tmp beside an
\* earlier checkpoint.json
C36_Witness ==
    /\ restarts > 0 /\ mpc = "idle"
    /\ ckptDir.file = "tmp" /\ ckptDir.written > 0 /\ ckptDir.written < DocUnits
    /\ ckpt.exists /\ ckpt.decodable /\ ckpt = ckptDir.old /\ ckpt # ckptDir.doc


C38_Step ==
    \A kind \in WriteErrors :
        FlushWriteFails(kind) =>
            \A k \in Keys :
                (flushing[k] # NoVal /\ acked[k] = flushing[k] /\ memTable[k] = NoVal)
                    => EngineGet(k)' = flushing[k]
\* C38: when the block write of a flush fails, every key of the table the flush
\* swapped out, not written since, still answers the value it had in that table.
C38_FailedFlushKeepsEntries == [][C38_Step]_vars


\* C39: no ScheduleCompaction call sends a task on the queue once Stop has
\* closed it (the send on the closed channel is the panic).
C39_NoSendOnClosedQueue == ~cmCtx.panicked


C40_Step == (RecoverLoad \/ ReplayStep) => ~CheckpointerInside
\* C40: no write of recover to memTable, memTableSize or
\* lastCheckpointedWALTimestamp falls inside a createCheckpoint of the
\* checkpointer, that is between its reads of these fields.
C40_RecoveryWritesAlone == [][C40_Step]_vars

====
